---- MODULE Spec2Model ----
(***************************************************************************)
(* Model of the monitoring dashboard's server side:                        *)
(*   - src/app/api/monitoring/route.ts : the monitoring supervisor         *)
(*     (module-level handle, running flag, start time; start/stop/status)  *)
(*   - src/app/api/logs/stream/route.ts : the server-sent-event log stream *)
(* Node runs every handler to completion; the only suspension points are   *)
(* the awaits of the code, and each piece between two awaits is one action.*)
(***************************************************************************)
EXTENDS Integers, Sequences, FiniteSets, TLC

(* ---- bounds of the model ---- *)
MaxProcs == 2
MaxReqs == 3
MaxSubs == 2
MaxChunks == 2
MaxStreamLen == 3
MaxLines == 2
MaxEvents == 3
MaxAppends == 52
MaxErrors == 1
MaxTests == 2
MaxCtReqs == 3
MaxElapsed == 121
MaxRecords == 3
MaxTenths == 3
MaxDown == 43201

VARIABLES
  monitoringProcess,  \* route.ts:10  the handle: 0 is null, p > 0 the p-th ChildProcess
  isMonitoring,       \* route.ts:11
  processStartTime,   \* route.ts:12  0 is null, k > 0 the time of the k-th spawn
  child,              \* the ChildProcess objects created by startMonitoring
  tick,               \* the ChildProcess whose spawn error waits in process.nextTick, or 0
  req,                \* the POST requests to /api/monitoring
  pair,               \* history: the start requests run back to back, nothing between
  stopSince,          \* history: the processes after whose start a stop was issued
  conn,               \* the GET requests to /api/logs/stream (the observers)
  sproc,              \* stream/route.ts:22  the ChildProcess each GET created
  writer,             \* stream/route.ts:8   each GET's stream writer
  delivered,          \* the events each observer is sent, in order
  stick,              \* the GET whose spawn error waits in process.nextTick, or 0
  nchunks,            \* how many 'data' events the subprocesses have raised so far
  fstream,            \* line framing: all that a subprocess writes to one of its pipes
  fkind,              \* line framing: "raw" for the stdout pipe, "error" for stderr
  fpos,               \* line framing: how much of fstream the 'data' events carried so far
  femitted,           \* line framing: the events sent for it, in order
  fended,             \* line framing: the pipe has ended
  agents,             \* dashboard:80   id -> status and current task
  serverStatus,       \* dashboard:106
  currentWorkflow,    \* dashboard:108  the workflow marker
  serverLogs,         \* dashboard:104
  timers,             \* dashboard: the pending setTimeout callbacks, each with the time left
  dashIsMonitoring,   \* dashboard:105  the component's isMonitoring
  es,                 \* dashboard:133  the EventSource
  ui,                 \* dashboard: the click handlers that wait for their response
  script,             \* the raw lines still to arrive, when they are given
  nevents,            \* how many clicks, polls and stream events happened so far
  lastLine,           \* history: the last raw line classified
  nraw,               \* history: how many raw lines were classified
  phase,              \* history: the last of mount, start, stop, exit, check, cycle start
  appended,           \* log buffer alone: every entry passed to addServerLog, in order
  activeTestProcess,  \* crash-test/route.ts:6  the handle: 0 is null
  testStartTime,      \* crash-test/route.ts:7  0 is null, k > 0 the time of the k-th spawn
  tchild,             \* the ChildProcess objects the crash-test route created
  ctn,                \* how many requests the crash-test route has answered
  ctReply,            \* the last answer of the crash-test route
  fileState,          \* agent_flashcards.jsonl: "missing", "present", or "malformed" (a line is no JSON)
  records,            \* the records of the file, in file order
  apiReply,           \* the last answer of the stats or the incidents route
  downLen,            \* a long file: how many of its records have status DOWN
  uptimeSeen          \* a long file: the uptime last answered, and for which downLen

monVars == <<monitoringProcess, isMonitoring, processStartTime, child, tick, req,
             pair, stopSince>>

streamVars == <<conn, sproc, writer, delivered, stick, nchunks>>

framerVars == <<fstream, fkind, fpos, femitted, fended>>

dashVars == <<agents, serverStatus, currentWorkflow, serverLogs, timers, dashIsMonitoring,
              es, ui, script, nevents, lastLine, nraw, phase>>

logVars == <<appended>>

ctVars == <<activeTestProcess, testStartTime, tchild, ctn, ctReply>>

statsVars == <<fileState, records, apiReply, downLen, uptimeSeen>>

vars == <<monVars, streamVars, framerVars, dashVars, logVars, ctVars, statsVars>>

nonMonVars == <<streamVars, framerVars, dashVars, logVars, ctVars, statsVars>>

nonStreamVars == <<monVars, framerVars, dashVars, logVars, ctVars, statsVars>>

nonFramerVars == <<monVars, streamVars, dashVars, logVars, ctVars, statsVars>>

nonDashVars == <<monVars, streamVars, framerVars, logVars, ctVars, statsVars>>

nonLogVars == <<monVars, streamVars, framerVars, ctVars, statsVars>>

nonCtVars == <<monVars, streamVars, framerVars, dashVars, logVars, statsVars>>

nonStatsVars == <<monVars, streamVars, framerVars, dashVars, logVars, ctVars>>

ProcIds == 1..MaxProcs
ReqIds == 1..MaxReqs
SubIds == 1..MaxSubs

Null == 0

(* the actions a POST body may name (route.ts:66-78); "bogus" is any other *)
Actions == {"start", "stop", "single-check", "bogus"}

(* ChildProcess: st is the life of the OS process and of its Node events:  *)
(*   unborn  not created yet                                               *)
(*   alive   the OS process runs (signalled or not)                        *)
(*   dead    the OS process has ended, 'exit' is not emitted yet           *)
(*   failed  spawn() returned the object but the OS process never started; *)
(*           its 'error' event is queued with process.nextTick             *)
(*   gone    'exit' or 'error' has been emitted                            *)
(* killed is ChildProcess.killed: true once kill() has delivered a signal. *)
ProcStates == {"unborn", "alive", "dead", "failed", "gone"}

NoChild == [st |-> "unborn", killed |-> FALSE]

NoReq == [pc |-> "idle", kind |-> "none", result |-> "none", target |-> Null,
          spawned |-> Null]

Spawned == {p \in ProcIds : child[p].st # "unborn"}

Alive == {p \in ProcIds : child[p].st = "alive"}

(* the ChildProcess the next spawn() creates *)
NextProc == Cardinality(Spawned) + 1

(* new Date() at the k-th spawn *)
Now == NextProc

(* ChildProcess.pid: undefined (0) when the OS process never started *)
Pid(p) == IF p # Null /\ child[p].st # "failed" THEN p ELSE Null

(* ChildProcess.kill(signal): the signal reaches a process that has not   *)
(* been reaped; kill() then sets .killed. SIGKILL ends the process, SIGTERM*)
(* leaves it to the process when and whether it ends.                      *)
Kill(ch, p, sig) ==
  IF ch[p].st = "alive"
    THEN [ch EXCEPT ![p].st = IF sig = "SIGKILL" THEN "dead" ELSE "alive",
                    ![p].killed = TRUE]
    ELSE IF ch[p].st = "dead"
      THEN [ch EXCEPT ![p].killed = TRUE]
      ELSE ch

(* GET /api/monitoring: the snapshot built at route.ts:41-48; lastActivity, *)
(* logSize and backendPath come from the file system, not from this state  *)
status ==
  [isRunning |-> isMonitoring /\ monitoringProcess # Null,
   processId |-> Pid(monitoringProcess),
   startTime |-> processStartTime]

MonInit ==
  /\ monitoringProcess = Null
  /\ isMonitoring = FALSE
  /\ processStartTime = Null
  /\ child = [p \in ProcIds |-> NoChild]
  /\ tick = Null
  /\ req = [r \in ReqIds |-> NoReq]
  /\ pair = <<Null, Null>>
  /\ stopSince = {}

(* a queued process.nextTick callback runs before any other event *)
Ready == tick = Null

StopInFlight == \E r \in ReqIds : req[r].kind = "stop" /\ req[r].pc \in {"parse", "grace"}

(* POST arrives: await request.json() (route.ts:62-64) *)
Post(r, a) ==
  /\ UNCHANGED nonMonVars
  /\ Ready
  /\ req[r].pc = "idle"
  /\ \A q \in ReqIds : q < r => req[q].pc # "idle"
  /\ req' = [req EXCEPT ![r].pc = "parse", ![r].kind = a]
  /\ stopSince' = IF a = "stop" THEN Spawned ELSE stopSince
  /\ UNCHANGED <<monitoringProcess, isMonitoring, processStartTime, child, tick, pair>>

(* what spawn() does: "ok" the process runs, "error" the object is returned *)
(* and 'error' is emitted on the next tick, "throw" spawn() throws          *)
SpawnOutcomes == {"ok", "error", "throw"}

StartPair(r) ==
  IF pair[1] # Null /\ pair[2] = Null
    THEN <<pair[1], r>>
    ELSE <<IF isMonitoring THEN Null ELSE r, Null>>

(* startMonitoring with its guard (route.ts:89) dropped *)
startMonitoring_noGuard(r, out) ==
  /\ UNCHANGED nonMonVars
  /\ Ready
  /\ req[r].pc = "parse" /\ req[r].kind = "start"
  /\ pair' = StartPair(r)
  /\ out # "throw"
  /\ NextProc \in ProcIds
  /\ monitoringProcess' = NextProc
  /\ child' = [child EXCEPT ![NextProc] =
                 [st |-> IF out = "ok" THEN "alive" ELSE "failed", killed |-> FALSE]]
  /\ tick' = IF out = "ok" THEN Null ELSE NextProc
  /\ processStartTime' = Now
  /\ isMonitoring' = TRUE
  /\ req' = [req EXCEPT ![r].pc = "done", ![r].result = "ok", ![r].spawned = NextProc]
  /\ UNCHANGED stopSince

(* startMonitoring with an await between its guard and the spawn *)
startMonitoring_awaits(r, out) ==
  /\ UNCHANGED nonMonVars
  /\ Ready
  /\ req[r].kind = "start"
  /\ \/ /\ req[r].pc = "parse"
        /\ pair' = StartPair(r)
        /\ req' = [req EXCEPT ![r].pc = IF isMonitoring THEN "done" ELSE "checked",
                              ![r].result = IF isMonitoring THEN "AlreadyRunning"
                                                            ELSE "none"]
        /\ UNCHANGED <<monitoringProcess, isMonitoring, processStartTime, child, tick,
                       stopSince>>
     \/ /\ req[r].pc = "checked"
        /\ out = "ok"
        /\ NextProc \in ProcIds
        /\ monitoringProcess' = NextProc
        /\ child' = [child EXCEPT ![NextProc] = [st |-> "alive", killed |-> FALSE]]
        /\ processStartTime' = Now
        /\ isMonitoring' = TRUE
        /\ req' = [req EXCEPT ![r].pc = "done", ![r].result = "ok",
                              ![r].spawned = NextProc]
        /\ UNCHANGED <<tick, pair, stopSince>>

(* startMonitoring (route.ts:88-151): no await, so one step *)
startMonitoring(r, out) ==
  /\ UNCHANGED nonMonVars
  /\ Ready
  /\ req[r].pc = "parse" /\ req[r].kind = "start"
  /\ pair' = StartPair(r)
  /\ IF isMonitoring
       THEN /\ req' = [req EXCEPT ![r].pc = "done", ![r].result = "AlreadyRunning"]
            /\ UNCHANGED <<monitoringProcess, isMonitoring, processStartTime, child,
                           tick, stopSince>>
       ELSE IF out = "throw"
         THEN /\ isMonitoring' = FALSE
              /\ monitoringProcess' = Null
              /\ req' = [req EXCEPT ![r].pc = "done", ![r].result = "StartFailed"]
              /\ UNCHANGED <<processStartTime, child, tick, stopSince>>
         ELSE /\ NextProc \in ProcIds
              /\ monitoringProcess' = NextProc
              /\ child' = [child EXCEPT ![NextProc] =
                             [st |-> IF out = "ok" THEN "alive" ELSE "failed",
                              killed |-> FALSE]]
              /\ tick' = IF out = "ok" THEN Null ELSE NextProc
              /\ processStartTime' = Now
              /\ isMonitoring' = TRUE
              /\ req' = [req EXCEPT ![r].pc = "done", ![r].result = "ok",
                                    ![r].spawned = NextProc]
              /\ stopSince' = IF StopInFlight THEN stopSince \cup {NextProc}
                                              ELSE stopSince \ {NextProc}

(* stopMonitoring with its early return (route.ts:154-159) dropped *)
stopMonitoring_noGuard(r) ==
  /\ UNCHANGED nonMonVars
  /\ Ready
  /\ req[r].pc = "parse" /\ req[r].kind = "stop"
  /\ pair' = <<Null, Null>>
  /\ child' = IF monitoringProcess # Null
                THEN Kill(child, monitoringProcess, "SIGTERM")
                ELSE child
  /\ req' = [req EXCEPT ![r].pc = "grace", ![r].target = monitoringProcess]
  /\ UNCHANGED <<monitoringProcess, isMonitoring, processStartTime, tick, stopSince>>

(* stopMonitoring up to its await (route.ts:153-166); kill() with a known  *)
(* signal name does not throw, so the catch (route.ts:180-186) is not taken *)
stopMonitoring(r) ==
  /\ UNCHANGED nonMonVars
  /\ Ready
  /\ req[r].pc = "parse" /\ req[r].kind = "stop"
  /\ pair' = <<Null, Null>>
  /\ IF ~isMonitoring \/ monitoringProcess = Null
       THEN /\ req' = [req EXCEPT ![r].pc = "done", ![r].result = "NotRunning"]
            /\ UNCHANGED child
       ELSE /\ child' = Kill(child, monitoringProcess, "SIGTERM")
            /\ req' = [req EXCEPT ![r].pc = "grace", ![r].target = monitoringProcess]
  /\ UNCHANGED <<monitoringProcess, isMonitoring, processStartTime, tick, stopSince>>

(* the end of stopMonitoring with 'isMonitoring = false' left out *)
stopResume_keepsFlag(r) ==
  /\ UNCHANGED nonMonVars
  /\ Ready
  /\ req[r].pc = "grace"
  /\ pair' = <<Null, Null>>
  /\ child' = IF monitoringProcess # Null /\ ~child[monitoringProcess].killed
                THEN Kill(child, monitoringProcess, "SIGKILL")
                ELSE child
  /\ monitoringProcess' = Null
  /\ req' = [req EXCEPT ![r].pc = "done", ![r].result = "ok"]
  /\ UNCHANGED <<isMonitoring, processStartTime, tick, stopSince>>

(* stopMonitoring after the 2000 ms timer (route.ts:168-178) *)
stopResume(r) ==
  /\ UNCHANGED nonMonVars
  /\ Ready
  /\ req[r].pc = "grace"
  /\ pair' = <<Null, Null>>
  /\ child' = IF monitoringProcess # Null /\ ~child[monitoringProcess].killed
                THEN Kill(child, monitoringProcess, "SIGKILL")
                ELSE child
  /\ isMonitoring' = FALSE
  /\ monitoringProcess' = Null
  /\ req' = [req EXCEPT ![r].pc = "done", ![r].result = "ok"]
  /\ UNCHANGED <<processStartTime, tick, stopSince>>

(* triggerSingleCheck (route.ts:189-246): runs main.py --once with exec,   *)
(* a process of its own; it reads and writes none of the supervisor state  *)
triggerSingleCheck(r, ok) ==
  /\ UNCHANGED nonMonVars
  /\ Ready
  /\ req[r].pc = "parse" /\ req[r].kind = "single-check"
  /\ req' = [req EXCEPT ![r].pc = "done",
                        ![r].result = IF ok THEN "ok" ELSE "SingleCheckFailed"]
  /\ UNCHANGED <<monitoringProcess, isMonitoring, processStartTime, child, tick, pair,
                 stopSince>>

(* POST default branch (route.ts:73-77) *)
invalidAction(r) ==
  /\ UNCHANGED nonMonVars
  /\ Ready
  /\ req[r].pc = "parse" /\ req[r].kind = "bogus"
  /\ req' = [req EXCEPT ![r].pc = "done", ![r].result = "InvalidAction"]
  /\ UNCHANGED <<monitoringProcess, isMonitoring, processStartTime, child, tick, pair,
                 stopSince>>

(* the OS process ends: by itself, or because of a signal it honours *)
Die(p) ==
  /\ UNCHANGED nonMonVars
  /\ Ready
  /\ child[p].st = "alive"
  /\ child' = [child EXCEPT ![p].st = "dead"]
  /\ UNCHANGED <<monitoringProcess, isMonitoring, processStartTime, tick, req, pair,
                 stopSince>>

(* the listeners with the handle left in place *)
clearHandle_flagOnly ==
  /\ isMonitoring' = FALSE
  /\ monitoringProcess' = monitoringProcess

(* what both the 'exit' and the 'error' listener do (route.ts:124-125, 131-132) *)
clearHandle ==
  /\ isMonitoring' = FALSE
  /\ monitoringProcess' = Null

(* the 'exit' listener registered on process p (route.ts:122-126) *)
onExit(p) ==
  /\ UNCHANGED nonMonVars
  /\ Ready
  /\ child[p].st = "dead"
  /\ child' = [child EXCEPT ![p].st = "gone"]
  /\ clearHandle
  /\ pair' = <<Null, Null>>
  /\ UNCHANGED <<processStartTime, tick, req, stopSince>>

(* the 'error' listener registered on process p (route.ts:129-133) *)
onError(p) ==
  /\ UNCHANGED nonMonVars
  /\ tick = p
  /\ child' = [child EXCEPT ![p].st = "gone"]
  /\ tick' = Null
  /\ clearHandle
  /\ pair' = <<Null, Null>>
  /\ UNCHANGED <<processStartTime, req, stopSince>>

MonNext ==
  \/ \E r \in ReqIds, a \in Actions : Post(r, a)
  \/ \E r \in ReqIds, out \in SpawnOutcomes : startMonitoring(r, out)
  \/ \E r \in ReqIds : stopMonitoring(r)
  \/ \E r \in ReqIds : stopResume(r)
  \/ \E r \in ReqIds, ok \in BOOLEAN : triggerSingleCheck(r, ok)
  \/ \E r \in ReqIds : invalidAction(r)
  \/ \E p \in ProcIds : Die(p)
  \/ \E p \in ProcIds : onExit(p)
  \/ \E p \in ProcIds : onError(p)

(* ------------------------------------------------------------------------ *)
(* GET /api/logs/stream (stream/route.ts:5-105)                             *)
(* ------------------------------------------------------------------------ *)

NL == "\n"

(* the chunks a 'data' event may carry, as sequences of characters *)
StreamChunks == {<<"a", NL>>, <<" ", NL>>, <<"a", NL, "b">>}

(* String.prototype.split('\n') *)
RECURSIVE Split(_)
Split(str) ==
  IF \A i \in 1..Len(str) : str[i] # NL
    THEN <<str>>
    ELSE LET i == CHOOSE k \in 1..Len(str) :
                    str[k] = NL /\ \A j \in 1..(k - 1) : str[j] # NL
         IN <<SubSeq(str, 1, i - 1)>> \o Split(SubSeq(str, i + 1, Len(str)))

(* line.trim() is truthy: some character is not white space *)
Truthy(line) == \E i \in 1..Len(line) : line[i] \notin {" ", NL}

(* output.split('\n').filter(line => line.trim()) (stream/route.ts:37, 52) *)
Lines(chunk) == SelectSeq(Split(chunk), Truthy)

Event(kind, msg) == [event |-> kind, message |-> msg]

LineEvents(kind, chunk) ==
  LET ls == Lines(chunk) IN [i \in 1..Len(ls) |-> Event(kind, ls[i])]

NoConn == [st |-> "none", listening |-> FALSE]

NoSproc == [st |-> "unborn", killed |-> FALSE]

(* the writer: st is none, open or closed; reclosed when close() was called *)
(* on it closed; lateWrite when write() was called on it closed            *)
NoWriter == [st |-> "none", reclosed |-> FALSE, lateWrite |-> FALSE]

StreamInit ==
  /\ conn = [s \in SubIds |-> NoConn]
  /\ sproc = [s \in SubIds |-> NoSproc]
  /\ writer = [s \in SubIds |-> NoWriter]
  /\ delivered = [s \in SubIds |-> <<>>]
  /\ stick = Null
  /\ nchunks = 0

SReady == stick = Null

(* writer.write of evs in order: a closed writer rejects them *)
WriterAfterWrite(w, evs) ==
  IF w.st = "open" \/ evs = <<>> THEN w ELSE [w EXCEPT !.lateWrite = TRUE]

(* writer.close(): a closed writer rejects it *)
WriterAfterClose(w) ==
  IF w.st = "open" THEN [w EXCEPT !.st = "closed"] ELSE [w EXCEPT !.reclosed = TRUE]

(* sendEvent for each of evs (stream/route.ts:12-15) *)
sendEvent(s, evs) ==
  /\ delivered' = [delivered EXCEPT ![s] = IF writer[s].st = "open" THEN @ \o evs ELSE @]
  /\ writer' = [writer EXCEPT ![s] = WriterAfterWrite(@, evs)]

(* sendEvent for each of evs, then writer.close() *)
sendEventAndClose(s, evs) ==
  /\ delivered' = [delivered EXCEPT ![s] = IF writer[s].st = "open" THEN @ \o evs ELSE @]
  /\ writer' = [writer EXCEPT ![s] = WriterAfterClose(WriterAfterWrite(@, evs))]

(* GET (stream/route.ts:5-105): no await, so one step *)
streamGET(s, out) ==
  /\ UNCHANGED nonStreamVars
  /\ SReady
  /\ conn[s].st = "none"
  /\ \A t \in SubIds : t < s => conn[t].st # "none"
  /\ IF out = "throw"
       THEN /\ conn' = [conn EXCEPT ![s] = [st |-> "live", listening |-> FALSE]]
            /\ delivered' = [delivered EXCEPT ![s] = <<Event("error", <<>>)>>]
            /\ writer' = [writer EXCEPT ![s].st = "closed"]
            /\ UNCHANGED <<sproc, stick, nchunks>>
       ELSE /\ conn' = [conn EXCEPT ![s] = [st |-> "live", listening |-> TRUE]]
            /\ UNCHANGED nchunks
            /\ sproc' = [sproc EXCEPT ![s].st = IF out = "ok" THEN "alive" ELSE "failed"]
            /\ stick' = IF out = "ok" THEN Null ELSE s
            /\ delivered' = [delivered EXCEPT ![s] = <<Event("connected", <<>>)>>]
            /\ writer' = [writer EXCEPT ![s].st = "open"]

CanWrite(s) ==
  /\ sproc[s].st \in {"alive", "dead", "exited"}
  /\ nchunks < MaxChunks

(* the stdout 'data' listener (stream/route.ts:35-47) *)
onStdout(s, chunk) ==
  /\ UNCHANGED nonStreamVars
  /\ SReady
  /\ CanWrite(s)
  /\ nchunks' = nchunks + 1
  /\ sendEvent(s, LineEvents("raw", chunk))
  /\ UNCHANGED <<conn, sproc, stick>>

(* the stderr 'data' listener (stream/route.ts:50-61) *)
onStderr(s, chunk) ==
  /\ UNCHANGED nonStreamVars
  /\ SReady
  /\ CanWrite(s)
  /\ nchunks' = nchunks + 1
  /\ sendEvent(s, LineEvents("error", chunk))
  /\ UNCHANGED <<conn, sproc, stick>>

(* the OS process of GET s ends *)
streamDie(s) ==
  /\ UNCHANGED nonStreamVars
  /\ SReady
  /\ sproc[s].st = "alive"
  /\ sproc' = [sproc EXCEPT ![s].st = "dead"]
  /\ UNCHANGED <<conn, writer, delivered, stick, nchunks>>

(* the 'exit' listener with its writer.close() (stream/route.ts:70) left out *)
streamExit_noClose(s) ==
  /\ UNCHANGED nonStreamVars
  /\ SReady
  /\ sproc[s].st = "dead"
  /\ sproc' = [sproc EXCEPT ![s].st = "exited"]
  /\ sendEvent(s, <<Event("process_exit", <<>>)>>)
  /\ UNCHANGED <<conn, stick, nchunks>>

(* the 'exit' listener (stream/route.ts:64-71) *)
streamExit(s) ==
  /\ UNCHANGED nonStreamVars
  /\ SReady
  /\ sproc[s].st = "dead"
  /\ sproc' = [sproc EXCEPT ![s].st = "exited"]
  /\ sendEventAndClose(s, <<Event("process_exit", <<>>)>>)
  /\ UNCHANGED <<conn, stick, nchunks>>

(* the 'error' listener (stream/route.ts:73-79) *)
streamError(s) ==
  /\ UNCHANGED nonStreamVars
  /\ stick = s
  /\ sproc' = [sproc EXCEPT ![s].st = "errored"]
  /\ stick' = Null
  /\ sendEvent(s, <<Event("error", <<>>)>>)
  /\ UNCHANGED <<conn, nchunks>>

(* the request's 'abort' listener (stream/route.ts:82-85) *)
streamAbort(s) ==
  /\ UNCHANGED nonStreamVars
  /\ SReady
  /\ conn[s].st = "live" /\ conn[s].listening
  /\ conn' = [conn EXCEPT ![s].st = "aborted"]
  /\ sproc' = Kill(sproc, s, "SIGTERM")
  /\ sendEventAndClose(s, <<>>)
  /\ UNCHANGED <<stick, nchunks>>

StreamNext ==
  \/ \E s \in SubIds, out \in SpawnOutcomes : streamGET(s, out)
  \/ \E s \in SubIds, c \in StreamChunks : onStdout(s, c)
  \/ \E s \in SubIds, c \in StreamChunks : onStderr(s, c)
  \/ \E s \in SubIds : streamDie(s)
  \/ \E s \in SubIds : streamExit(s)
  \/ \E s \in SubIds : streamError(s)
  \/ \E s \in SubIds : streamAbort(s)

(* ------------------------------------------------------------------------ *)
(* Line framing: the 'data' listeners of stream/route.ts:35-61 fed with one *)
(* pipe's content, cut into chunks in every possible way                    *)
(* ------------------------------------------------------------------------ *)

FramerChars == {"a", "b", " ", NL}

RECURSIVE SeqsUpTo(_, _)
SeqsUpTo(S, n) ==
  IF n = 0 THEN {<<>>}
  ELSE LET shorter == SeqsUpTo(S, n - 1)
       IN shorter \cup {Append(q, c) : q \in {x \in shorter : Len(x) = n - 1}, c \in S}

FramerInit ==
  /\ fstream \in SeqsUpTo(FramerChars, MaxStreamLen)
  /\ fkind \in {"raw", "error"}
  /\ fpos = 0
  /\ femitted = <<>>
  /\ fended = FALSE

(* a 'data' event carrying the next k characters (stream/route.ts:35-47, 50-61) *)
framerData(k) ==
  /\ UNCHANGED nonFramerVars
  /\ ~fended
  /\ fpos + k <= Len(fstream)
  /\ femitted' = femitted \o LineEvents(fkind, SubSeq(fstream, fpos + 1, fpos + k))
  /\ fpos' = fpos + k
  /\ UNCHANGED <<fstream, fkind, fended>>

(* the pipe ends; the route registers no 'end' or 'close' listener *)
framerEnd ==
  /\ UNCHANGED nonFramerVars
  /\ ~fended
  /\ fpos = Len(fstream)
  /\ fended' = TRUE
  /\ UNCHANGED <<fstream, fkind, fpos, femitted>>

FramerNext ==
  \/ \E k \in 1..MaxStreamLen : framerData(k)
  \/ framerEnd

IdleFramer ==
  /\ fstream = <<>>
  /\ fkind = "raw"
  /\ fpos = 0
  /\ femitted = <<>>
  /\ fended = FALSE

(* ------------------------------------------------------------------------ *)
(* The dashboard: components/AgentWorkflowDashboard.tsx                     *)
(*                                                                          *)
(* A raw line is the set of the classifier's keywords it contains: no       *)
(* keyword is part of another, so message.includes(k) is k \in message.     *)
(* "robot", "boom" and "tick" stand for the three emoji of the source.      *)
(* ------------------------------------------------------------------------ *)

AgentIds == {"supervisor", "executor", "evaluator"}

NoWorkflow == "null"

Keywords ==
  {"robot", "STARTING", "Supervisor:", "Starting monitoring cycle", "Analyzing",
   "LLM diagnosis:", "confidence:", "DOWN", "UP", "Executor:", "PM2", "restart",
   "repair", "success", "POST-REPAIR", "Verification", "Testing endpoint",
   "PASSED", "Flashcard created", "SUMMARY", "boom", "CRASH", "Stopping server",
   "Agent PID:", "monitoring started", "Supervisor diagnosis:", "Evaluator:",
   "MONITORING CYCLE SUMMARY", "Flashcard", "verified"}

includes(message, keyword) == keyword \in message

(* a fixed text of the source, as a message *)
Text(t) == {t}

getIdleTask(agentId) ==
  CASE agentId = "supervisor" -> "Monitoring server health..."
    [] agentId = "executor" -> "Awaiting repair instructions..."
    [] agentId = "evaluator" -> "Ready to verify repairs..."
    [] OTHER -> "Idle"

IdleAgents == [a \in AgentIds |-> [status |-> "idle", currentTask |-> getIdleTask(a)]]

(* the React state the handlers below read and write *)
Dash ==
  [agents |-> agents, serverStatus |-> serverStatus, currentWorkflow |-> currentWorkflow,
   serverLogs |-> serverLogs, timers |-> timers]

SetDash(d) ==
  /\ agents' = d.agents
  /\ serverStatus' = d.serverStatus
  /\ currentWorkflow' = d.currentWorkflow
  /\ serverLogs' = d.serverLogs
  /\ timers' = d.timers

(* the update if it kept only the agent it changes (filter in place of map) *)
updateAgentStatus_onlyThat(d, agentId, newStatus, task) ==
  [d EXCEPT !.agents = [a \in {agentId} |-> [status |-> newStatus, currentTask |-> task]]]

updateAgentStatus(d, agentId, newStatus, task) ==
  [d EXCEPT !.agents[agentId] = [status |-> newStatus, currentTask |-> task]]

(* setServerStatus if it cleared the workflow marker as well *)
setServerStatus_clearsWorkflow(d, v) ==
  [d EXCEPT !.serverStatus = v, !.currentWorkflow = NoWorkflow]

setServerStatus(d, v) == [d EXCEPT !.serverStatus = v]

setCurrentWorkflow(d, v) == [d EXCEPT !.currentWorkflow = v]

(* the reset if it also put the server status back to its first value *)
resetAgents_andStatus(d) == [d EXCEPT !.agents = IdleAgents, !.serverStatus = "unknown"]

resetAgents(d) == [d EXCEPT !.agents = IdleAgents]

LogKeep == 50

(* prev.slice(-n) *)
LastN(q, n) == IF Len(q) <= n THEN q ELSE SubSeq(q, Len(q) - n + 1, Len(q))

(* addServerLog if it kept no entry of level 'info' *)
addServerLog_dropsInfo(d, level, message) ==
  IF level = "info" THEN d
  ELSE [d EXCEPT !.serverLogs = Append(LastN(@, LogKeep), [level |-> level, message |-> message])]

addServerLog(d, level, message) ==
  [d EXCEPT !.serverLogs = Append(LastN(@, LogKeep), [level |-> level, message |-> message])]

PrepareDelay == 1500
CompleteDelay == 1000
WorkflowDelay == 1500
ResetDelay == 2000

(* the time one Tick takes: the delays are whole numbers of it *)
Step == 500

setTimeout(d, callback, delay) ==
  [d EXCEPT !.timers = Append(@, [cb |-> callback, left |-> delay])]

(* the conditions of the if / else-if chain of detectAgentFromRawMessage, top to bottom *)
NumRules == 8

RuleMatches(i, message) ==
  CASE i = 1 -> includes(message, "robot") /\ includes(message, "STARTING")
    [] i = 2 -> \/ includes(message, "Supervisor:")
                \/ includes(message, "Starting monitoring cycle")
                \/ includes(message, "Analyzing")
    [] i = 3 -> includes(message, "LLM diagnosis:") \/ includes(message, "confidence:")
    [] i = 4 -> \/ includes(message, "Executor:")
                \/ includes(message, "PM2")
                \/ includes(message, "restart")
                \/ includes(message, "repair")
    [] i = 5 -> \/ includes(message, "POST-REPAIR")
                \/ includes(message, "Verification")
                \/ includes(message, "Testing endpoint")
    [] i = 6 -> \/ includes(message, "PASSED")
                \/ includes(message, "Flashcard created")
                \/ includes(message, "SUMMARY")
    [] i = 7 -> \/ includes(message, "boom")
                \/ includes(message, "CRASH")
                \/ includes(message, "Stopping server")
    [] i = 8 -> includes(message, "Agent PID:") \/ includes(message, "monitoring started")

(* the bodies of the branches, top to bottom *)
RuleEffect(i, d, message) ==
  CASE i = 1 ->
         updateAgentStatus(setCurrentWorkflow(d, "Continuous monitoring initiated"),
                           "supervisor", "working", "Initializing monitoring cycle...")
    [] i = 2 ->
         updateAgentStatus(d, "supervisor", "working", "Analyzing server health...")
    [] i = 3 ->
         LET d1 == updateAgentStatus(d, "supervisor", "working",
                                     IF includes(message, "DOWN")
                                     THEN "Server DOWN detected!"
                                     ELSE "Server UP confirmed")
         IN IF includes(message, "DOWN")
            THEN setTimeout(setServerStatus(d1, "down"), "executorPrepare", PrepareDelay)
            ELSE IF includes(message, "UP") THEN setServerStatus(d1, "up") ELSE d1
    [] i = 4 ->
         updateAgentStatus(
           updateAgentStatus(d, "executor", "working",
                             IF includes(message, "success")
                             THEN "Repair completed!"
                             ELSE "Executing repair..."),
           "supervisor", "completed", "Analysis complete - repair needed")
    [] i = 5 ->
         setTimeout(updateAgentStatus(d, "evaluator", "working", "Verifying repair success..."),
                    "executorComplete", CompleteDelay)
    [] i = 6 ->
         setTimeout(updateAgentStatus(d, "evaluator", "completed", "Verification complete!"),
                    "workflowComplete", WorkflowDelay)
    [] i = 7 ->
         setServerStatus(addServerLog(d, "warn", message \cup {"boom"}), "down")
    [] i = 8 ->
         addServerLog(d, "success", message \cup {"tick"})

(* the chain with its first n branches already tried and failed *)
RECURSIVE ElseIf(_, _, _)
ElseIf(n, d, message) ==
  IF n > NumRules THEN d
  ELSE IF RuleMatches(n, message) THEN RuleEffect(n, d, message)
  ELSE ElseIf(n + 1, d, message)

(* the chain if its fourth branch began with 'if' instead of 'else if' *)
detectAgentFromRawMessage_lostElse(d, message) ==
  LET d1 == IF \E i \in 1..3 : RuleMatches(i, message) THEN ElseIf(1, d, message) ELSE d
  IN ElseIf(4, d1, message)

detectAgentFromRawMessage(d, message) == ElseIf(1, d, message)

(* the callbacks if the first timer of a completed cycle cleared the marker *)
runTimer_clearsFirst(d, callback) ==
  CASE callback = "executorPrepare" ->
         updateAgentStatus(d, "executor", "working", "Preparing repair strategy...")
    [] callback = "executorComplete" ->
         updateAgentStatus(d, "executor", "completed", "Repair execution complete")
    [] callback = "workflowComplete" ->
         setTimeout(setCurrentWorkflow(d, NoWorkflow), "resetAll", ResetDelay)
    [] callback = "resetAll" ->
         resetAgents(d)

(* the callbacks if the first timer of a completed cycle set no second one *)
runTimer_noReset(d, callback) ==
  CASE callback = "executorPrepare" ->
         updateAgentStatus(d, "executor", "working", "Preparing repair strategy...")
    [] callback = "executorComplete" ->
         updateAgentStatus(d, "executor", "completed", "Repair execution complete")
    [] callback = "workflowComplete" ->
         setCurrentWorkflow(d, "Monitoring cycle complete")
    [] callback = "resetAll" ->
         resetAgents(setCurrentWorkflow(d, NoWorkflow))

(* the bodies of the setTimeout callbacks *)
runTimer(d, callback) ==
  CASE callback = "executorPrepare" ->
         updateAgentStatus(d, "executor", "working", "Preparing repair strategy...")
    [] callback = "executorComplete" ->
         updateAgentStatus(d, "executor", "completed", "Repair execution complete")
    [] callback = "workflowComplete" ->
         setTimeout(setCurrentWorkflow(d, "Monitoring cycle complete"), "resetAll", ResetDelay)
    [] callback = "resetAll" ->
         resetAgents(setCurrentWorkflow(d, NoWorkflow))

Remove(q, i) == SubSeq(q, 1, i - 1) \o SubSeq(q, i + 1, Len(q))

(* the timer to run next: of those that are due, the one set first *)
Due == {i \in 1..Len(timers) : timers[i].left = 0 /\ \A j \in 1..(i - 1) : timers[j].left # 0}

NoLine == {"(no line yet)"}

(* the state of the component when it is mounted (lines 80-108) *)
DashInit ==
  /\ agents = IdleAgents
  /\ serverStatus = "unknown"
  /\ currentWorkflow = NoWorkflow
  /\ serverLogs = <<>>
  /\ timers = <<>>
  /\ dashIsMonitoring = FALSE
  /\ es = "none"
  /\ ui = [start |-> FALSE, stop |-> FALSE, check |-> FALSE]
  /\ script = <<>>
  /\ nevents = 0
  /\ lastLine = NoLine
  /\ nraw = 0
  /\ phase = "mounted"

(* setIsMonitoring(v) and the effect that depends on it (lines 132-186): a  *)
(* change to true opens an EventSource, a change to false closes it         *)
setIsMonitoring(v) ==
  /\ dashIsMonitoring' = v
  /\ es' = IF v = dashIsMonitoring THEN es ELSE IF v THEN "connecting" ELSE "none"

Results == {"success", "failure", "throw"}

(* a click on the start button, enabled while not monitoring (lines 680-681) *)
clickStart ==
  /\ UNCHANGED nonDashVars
  /\ ~dashIsMonitoring
  /\ ~ui.start
  /\ nevents < MaxEvents
  /\ ui' = [ui EXCEPT !.start = TRUE]
  /\ nevents' = nevents + 1
  /\ UNCHANGED <<agents, serverStatus, currentWorkflow, serverLogs, timers,
                 dashIsMonitoring, es, script, lastLine, nraw, phase>>

(* handleStartMonitoring after its awaits (lines 559-569) *)
handleStartMonitoring(result) ==
  /\ UNCHANGED nonDashVars
  /\ ui.start
  /\ ui' = [ui EXCEPT !.start = FALSE]
  /\ IF result = "success"
     THEN /\ setIsMonitoring(TRUE)
          /\ SetDash(setCurrentWorkflow(
                       addServerLog(Dash, "success", Text("Continuous monitoring started")),
                       "Continuous monitoring active"))
          /\ phase' = "started"
     ELSE /\ SetDash(addServerLog(Dash, "error",
                                  IF result = "failure"
                                  THEN Text("Failed to start monitoring: ...")
                                  ELSE Text("Failed to start monitoring")))
          /\ UNCHANGED <<dashIsMonitoring, es, phase>>
  /\ UNCHANGED <<script, nevents, lastLine, nraw>>

(* a click on the stop button, enabled while monitoring (lines 689-690) *)
clickStop ==
  /\ UNCHANGED nonDashVars
  /\ dashIsMonitoring
  /\ ~ui.stop
  /\ nevents < MaxEvents
  /\ ui' = [ui EXCEPT !.stop = TRUE]
  /\ nevents' = nevents + 1
  /\ UNCHANGED <<agents, serverStatus, currentWorkflow, serverLogs, timers,
                 dashIsMonitoring, es, script, lastLine, nraw, phase>>

(* handleStopMonitoring after its awaits (lines 580-595) *)
handleStopMonitoring(result) ==
  /\ UNCHANGED nonDashVars
  /\ ui.stop
  /\ ui' = [ui EXCEPT !.stop = FALSE]
  /\ IF result = "success"
     THEN /\ setIsMonitoring(FALSE)
          /\ SetDash(resetAgents(setCurrentWorkflow(
                       addServerLog(Dash, "info", Text("Monitoring stopped")),
                       NoWorkflow)))
          /\ phase' = "stopped"
     ELSE /\ SetDash(IF result = "throw"
                     THEN addServerLog(Dash, "error", Text("Failed to stop monitoring"))
                     ELSE Dash)
          /\ UNCHANGED <<dashIsMonitoring, es, phase>>
  /\ UNCHANGED <<script, nevents, lastLine, nraw>>

(* a click on the single-check button: handleTriggerCheck up to its first   *)
(* await (lines 598-607)                                                    *)
clickCheck ==
  /\ UNCHANGED nonDashVars
  /\ ~ui.check
  /\ nevents < MaxEvents
  /\ ui' = [ui EXCEPT !.check = TRUE]
  /\ nevents' = nevents + 1
  /\ SetDash(addServerLog(setCurrentWorkflow(Dash, "Single check in progress..."),
                          "info", Text("Triggering single agentic check")))
  /\ phase' = "check"
  /\ UNCHANGED <<dashIsMonitoring, es, script, lastLine, nraw>>

(* handleTriggerCheck after its awaits (lines 609-623) *)
handleTriggerCheck(result) ==
  /\ UNCHANGED nonDashVars
  /\ ui.check
  /\ ui' = [ui EXCEPT !.check = FALSE]
  /\ SetDash(setCurrentWorkflow(
               addServerLog(Dash, IF result = "success" THEN "success" ELSE "error",
                            CASE result = "success" -> Text("Single check completed successfully")
                              [] result = "failure" -> Text("Single check failed: ...")
                              [] OTHER -> Text("Single check failed")),
               NoWorkflow))
  /\ UNCHANGED <<dashIsMonitoring, es, script, nevents, lastLine, nraw, phase>>

(* one round of the 5 s poll that got an answer (lines 117-129, 188-204) *)
fetchMonitoringStatus(isRunning, lastActivity) ==
  /\ UNCHANGED nonDashVars
  /\ nevents < MaxEvents
  /\ nevents' = nevents + 1
  /\ setIsMonitoring(isRunning)
  /\ SetDash(IF ~dashIsMonitoring /\ lastActivity
             THEN addServerLog(Dash, "info", Text("(last line of the agent's log file)"))
             ELSE Dash)
  /\ phase' = IF isRunning /\ ~dashIsMonitoring THEN "started" ELSE phase
  /\ UNCHANGED <<ui, script, lastLine, nraw>>

(* eventSource.onopen (lines 138-140) *)
onopen ==
  /\ UNCHANGED nonDashVars
  /\ es = "connecting"
  /\ es' = "open"
  /\ SetDash(addServerLog(Dash, "success", Text("Connected to real-time log stream")))
  /\ UNCHANGED <<dashIsMonitoring, ui, script, nevents, lastLine, nraw, phase>>

(* the 'raw' listener (lines 153-161) *)
RawEvent(message) ==
  /\ es = "open"
  /\ SetDash(addServerLog(detectAgentFromRawMessage(Dash, message), "info", message))
  /\ lastLine' = message
  /\ nraw' = nraw + 1
  /\ phase' = IF RuleMatches(1, message) THEN "cycle" ELSE phase
  /\ UNCHANGED <<dashIsMonitoring, es, ui>>

(* the next line of a given sequence of lines arrives *)
rawScripted ==
  /\ UNCHANGED nonDashVars
  /\ script # <<>>
  /\ RawEvent(Head(script))
  /\ script' = Tail(script)
  /\ UNCHANGED nevents

(* some line arrives, one of a few *)
rawFree(message) ==
  /\ UNCHANGED nonDashVars
  /\ nevents < MaxLines
  /\ RawEvent(message)
  /\ nevents' = nevents + 1
  /\ UNCHANGED script

(* some line arrives, among the other events of the dashboard *)
onRaw(message) ==
  /\ UNCHANGED nonDashVars
  /\ nevents < MaxEvents
  /\ RawEvent(message)
  /\ nevents' = nevents + 1
  /\ UNCHANGED script

(* the 'error' listener, for a line of the subprocess's stderr (lines 163-166) *)
onStreamError(message) ==
  /\ UNCHANGED nonDashVars
  /\ es = "open"
  /\ nevents < MaxEvents
  /\ nevents' = nevents + 1
  /\ SetDash(addServerLog(Dash, "error", message))
  /\ UNCHANGED <<dashIsMonitoring, es, ui, script, lastLine, nraw, phase>>

(* the 'process_exit' listener (lines 168-173) *)
onProcessExit ==
  /\ UNCHANGED nonDashVars
  /\ es = "open"
  /\ setIsMonitoring(FALSE)
  /\ SetDash(setCurrentWorkflow(addServerLog(Dash, "warn", Text("Process exited with code ...")),
                                NoWorkflow))
  /\ phase' = "exited"
  /\ UNCHANGED <<ui, script, nevents, lastLine, nraw>>

(* eventSource.onerror (lines 175-178) *)
onerror ==
  /\ UNCHANGED nonDashVars
  /\ es \in {"connecting", "open"}
  /\ es' = "closed"
  /\ SetDash(addServerLog(Dash, "error", Text("Lost connection to log stream")))
  /\ UNCHANGED <<dashIsMonitoring, ui, script, nevents, lastLine, nraw, phase>>

(* ------------------------------------------------------------------------ *)
(* The 'log' listener of the dashboard (lines 142-150) and                  *)
(* updateAgentFromLog (lines 382-549)                                       *)
(* ------------------------------------------------------------------------ *)

(* the first if / else-if chain of updateAgentFromLog (lines 387-446) *)
logChain(d, message) ==
  IF \/ includes(message, "Supervisor:")
     \/ includes(message, "Analyzing")
     \/ includes(message, "LLM diagnosis:")
  THEN
    LET d1 == updateAgentStatus(d, "supervisor", "working",
                                IF includes(message, "DOWN")
                                THEN "Server issues detected!"
                                ELSE "Analyzing server health...")
        d2 == IF includes(message, "UP") THEN setServerStatus(d1, "up") ELSE d1
    IN IF includes(message, "DOWN") THEN setServerStatus(d2, "down") ELSE d2
  ELSE IF \/ includes(message, "Executor:")
          \/ includes(message, "PM2")
          \/ includes(message, "restart")
          \/ includes(message, "repair")
  THEN
    updateAgentStatus(
      updateAgentStatus(d, "executor", "working",
                        IF includes(message, "success")
                        THEN "Repair completed!"
                        ELSE "Executing repair commands..."),
      "supervisor", "completed", "Analysis complete - repair needed")
  ELSE IF \/ includes(message, "Verification")
          \/ includes(message, "verified")
          \/ includes(message, "POST-REPAIR")
  THEN
    updateAgentStatus(
      updateAgentStatus(d, "evaluator", "working", "Verifying repair success..."),
      "executor", "completed", "Repair actions executed")
  ELSE IF \/ includes(message, "PASSED")
          \/ includes(message, "Flashcard")
          \/ includes(message, "Flashcard created")
  THEN
    setTimeout(updateAgentStatus(d, "evaluator", "completed", "Verification complete!"),
               "logReset", 3000)
  ELSE IF includes(message, "Starting monitoring cycle") \/ includes(message, "robot")
  THEN
    updateAgentStatus(setCurrentWorkflow(d, "AI monitoring cycle initiated"),
                      "supervisor", "working", "Starting health check...")
  ELSE d

(* the part of updateAgentFromLog for structured log data (lines 448-548) *)
logLegacy(d, logData) ==
  IF logData.agent = "" \/ logData.agent = "system" THEN d
  ELSE IF logData.type = "diagnosis"
  THEN
    setTimeout(
      setServerStatus(
        updateAgentStatus(d, "supervisor", "working",
                          IF logData.status = "UP" THEN "Diagnosing server (UP)"
                          ELSE IF logData.status = "DOWN" THEN "Diagnosing server (DOWN)"
                          ELSE "Diagnosing server (...)"),
        IF logData.status = "UP" THEN "up" ELSE "down"),
      IF logData.status = "DOWN" THEN "nextExecutor" ELSE "nextEvaluator", 2000)
  ELSE IF logData.type = "repair"
  THEN
    setTimeout(updateAgentStatus(d, "executor", "working", "Executing repair commands..."),
               "repairDone", 1500)
  ELSE IF logData.type = "evaluation"
  THEN
    setTimeout(updateAgentStatus(d, "evaluator", "working", "Creating flashcard record..."),
               "evaluationDone", 1000)
  ELSE IF logData.type = "workflow"
  THEN
    IF includes(logData.message, "Starting monitoring cycle")
    THEN updateAgentStatus(setCurrentWorkflow(d, "Monitoring cycle initiated"),
                           "supervisor", "working", "Collecting system metrics...")
    ELSE IF includes(logData.message, "MONITORING CYCLE SUMMARY")
    THEN setTimeout(setCurrentWorkflow(d, NoWorkflow), "fetchFlashcards", 1000)
    ELSE d
  ELSE d

(* updateAgentFromLog if an event of level error marked its agent *)
updateAgentFromLog_marksError(d, logData) ==
  LET d1 == logLegacy(logChain(d, logData.message), logData)
  IN IF logData.agent \in AgentIds /\ logData.level # "info"
     THEN updateAgentStatus(d1, logData.agent, "error", "Failed")
     ELSE d1

updateAgentFromLog(d, logData) == logLegacy(logChain(d, logData.message), logData)

(* the setTimeout callbacks of updateAgentFromLog *)
LogCallbacks ==
  {"logReset", "nextExecutor", "nextEvaluator", "repairDone", "executorIdle",
   "evaluationDone", "fetchFlashcards"}

(* their bodies; fetchFlashcards writes none of the state kept here *)
runLogTimer(d, callback) ==
  CASE callback = "logReset" ->
         resetAgents(d)
    [] callback = "nextExecutor" ->
         updateAgentStatus(d, "executor", "working", "Preparing repair action...")
    [] callback = "nextEvaluator" ->
         updateAgentStatus(d, "evaluator", "working", "Verifying system health...")
    [] callback = "repairDone" ->
         setTimeout(
           updateAgentStatus(
             updateAgentStatus(d, "executor", "completed", "Repair commands executed"),
             "evaluator", "working", "Verifying repair success..."),
           "executorIdle", 3000)
    [] callback = "executorIdle" ->
         updateAgentStatus(d, "executor", "idle", "Awaiting repair instructions...")
    [] callback = "evaluationDone" ->
         setTimeout(
           updateAgentStatus(
             updateAgentStatus(d, "evaluator", "completed", "Flashcard created successfully"),
             "supervisor", "completed", "Monitoring cycle complete"),
           "logReset", 3000)
    [] callback = "fetchFlashcards" ->
         d

(* the body of whichever callback a timer holds *)
runCallback(d, callback) ==
  IF callback \in LogCallbacks THEN runLogTimer(d, callback) ELSE runTimer(d, callback)

(* the structured events the specification with them lets arrive; a         *)
(* diagnosis event names the status its line mentions first                 *)
LogEvents ==
  {[agent |-> "supervisor", type |-> "diagnosis", status |-> "DOWN", level |-> "info",
    message |-> {"Supervisor diagnosis:", "LLM diagnosis:", "DOWN", "UP"}],
   [agent |-> "supervisor", type |-> "diagnosis", status |-> "UP", level |-> "info",
    message |-> {"Supervisor diagnosis:", "LLM diagnosis:", "DOWN", "UP"}],
   [agent |-> "supervisor", type |-> "diagnosis", status |-> "UP", level |-> "info",
    message |-> {"Supervisor diagnosis:", "UP"}],
   [agent |-> "executor", type |-> "repair", status |-> "", level |-> "info",
    message |-> {"Executor:", "repair"}],
   [agent |-> "evaluator", type |-> "evaluation", status |-> "", level |-> "success",
    message |-> {"Evaluator:", "PASSED"}],
   [agent |-> "system", type |-> "workflow", status |-> "", level |-> "info",
    message |-> {"Starting monitoring cycle"}],
   [agent |-> "supervisor", type |-> "workflow", status |-> "", level |-> "info",
    message |-> {"MONITORING CYCLE SUMMARY"}]}

(* the 'log' listener (lines 142-150) *)
onLog(logData) ==
  /\ UNCHANGED nonDashVars
  /\ es = "open"
  /\ nevents < MaxEvents
  /\ nevents' = nevents + 1
  /\ SetDash(addServerLog(updateAgentFromLog(Dash, logData), logData.level, logData.message))
  /\ UNCHANGED <<dashIsMonitoring, es, ui, script, lastLine, nraw, phase>>

(* a timer that is due runs its callback *)
FireTimer ==
  /\ UNCHANGED nonDashVars
  /\ \E i \in Due : SetDash(runCallback([Dash EXCEPT !.timers = Remove(@, i)], timers[i].cb))
  /\ UNCHANGED <<dashIsMonitoring, es, ui, script, nevents, lastLine, nraw, phase>>

(* time passes, as long as no timer is due *)
Tick ==
  /\ UNCHANGED nonDashVars
  /\ timers # <<>>
  /\ \A i \in 1..Len(timers) : timers[i].left > 0
  /\ timers' = [i \in 1..Len(timers) |-> [timers[i] EXCEPT !.left = @ - Step]]
  /\ UNCHANGED <<agents, serverStatus, currentWorkflow, serverLogs,
                 dashIsMonitoring, es, ui, script, nevents, lastLine, nraw, phase>>

(* the lines the specifications below let arrive *)
Line_Banner == {"robot", "STARTING"}
Line_Diagnosis == {"LLM diagnosis:", "DOWN", "confidence:"}
Line_Repair == {"Executor:", "PM2", "restart"}
Line_Verify == {"POST-REPAIR", "Verification"}
Line_Summary == {"SUMMARY", "PASSED"}
Line_Crash == {"CRASH"}
Line_Stopping == {"boom", "Stopping server"}
Line_Other == {}

DashLines ==
  {Line_Banner, Line_Diagnosis, Line_Repair, Line_Verify, Line_Summary, Line_Crash, Line_Stopping,
   Line_Other}

(* the lines SpecDash lets arrive on stdout, and on stderr *)
StdoutLines == {Line_Banner, Line_Diagnosis, Line_Summary, Line_Crash}

StderrLines == {Line_Other}

(* a diagnosis line that names both states *)
Line_Mixed == {"LLM diagnosis:", "UP", "DOWN"}

(* the lines SpecDashLog lets arrive on stdout *)
MixedLines == StdoutLines \cup {Line_Mixed}

Scenario == <<Line_Diagnosis, Line_Repair, Line_Verify, Line_Summary>>

DashNext ==
  \/ clickStart
  \/ \E result \in Results : handleStartMonitoring(result)
  \/ clickStop
  \/ \E result \in Results : handleStopMonitoring(result)
  \/ clickCheck
  \/ \E result \in Results : handleTriggerCheck(result)
  \/ \E isRunning \in BOOLEAN, lastActivity \in BOOLEAN :
       fetchMonitoringStatus(isRunning, lastActivity)
  \/ onopen
  \/ \E message \in StdoutLines : onRaw(message)
  \/ \E message \in StderrLines : onStreamError(message)
  \/ onProcessExit
  \/ onerror
  \/ FireTimer
  \/ Tick

(* the dashboard with structured events arriving as well *)
DashLogNext ==
  \/ clickStart
  \/ \E result \in Results : handleStartMonitoring(result)
  \/ clickStop
  \/ \E result \in Results : handleStopMonitoring(result)
  \/ onopen
  \/ \E message \in MixedLines : onRaw(message)
  \/ \E logData \in LogEvents : onLog(logData)
  \/ \E message \in StderrLines : onStreamError(message)
  \/ onProcessExit
  \/ onerror
  \/ FireTimer
  \/ Tick

(* lines arrive and timers run, nothing else happens *)
LinesNext ==
  \/ \E message \in DashLines : rawFree(message)
  \/ FireTimer
  \/ Tick

ScriptNext ==
  \/ rawScripted
  \/ FireTimer
  \/ Tick

(* the ways the component comes to be monitoring: its start button, or a   *)
(* poll that finds monitoring running, with or without a log line to show   *)
StartWays == {"click", "poll", "poll with log"}

(* monitoring is on and the stream is connected *)
Streaming ==
  /\ agents = IdleAgents
  /\ serverStatus = "unknown"
  /\ timers = <<>>
  /\ dashIsMonitoring = TRUE
  /\ es = "open"
  /\ ui = [start |-> FALSE, stop |-> FALSE, check |-> FALSE]
  /\ nevents = 0
  /\ lastLine = NoLine
  /\ nraw = 0
  /\ phase = "started"
  /\ \E way \in StartWays :
       /\ currentWorkflow = IF way = "click" THEN "Continuous monitoring active" ELSE NoWorkflow
       /\ serverLogs =
            (CASE way = "click" ->
                    <<[level |-> "success", message |-> Text("Continuous monitoring started")]>>
               [] way = "poll" -> <<>>
               [] OTHER ->
                    <<[level |-> "info", message |-> Text("(last line of the agent's log file)")]>>)
            \o <<[level |-> "success", message |-> Text("Connected to real-time log stream")]>>

(* the keywords the lines of SpecClassify are made of *)
ClassifyKeywords ==
  {"robot", "STARTING", "Supervisor:", "confidence:", "DOWN", "UP", "repair",
   "success", "Verification", "PASSED", "CRASH", "Agent PID:"}

(* ------------------------------------------------------------------------ *)
(* The crash-test route: app/api/crash-test/route.ts                        *)
(* ------------------------------------------------------------------------ *)

TestIds == 1..MaxTests

NextTest == Cardinality({p \in TestIds : tchild[p].st # "unborn"}) + 1

CtInit ==
  /\ activeTestProcess = Null
  /\ testStartTime = Null
  /\ tchild = [p \in TestIds |-> NoChild]
  /\ ctn = 0
  /\ ctReply = [action |-> "none"]

(* the handle after 'if (activeTestProcess) { kill; activeTestProcess = null }' *)
KillActive == IF activeTestProcess # Null THEN Kill(tchild, activeTestProcess, "SIGTERM") ELSE tchild

(* POST action=start (lines 13-53); a spawn that throws goes to the catch   *)
(* branch (lines 114-120)                                                   *)
ctStart(out) ==
  /\ UNCHANGED nonCtVars
  /\ ctn < MaxCtReqs
  /\ ctn' = ctn + 1
  /\ IF out = "ok"
     THEN /\ NextTest \in TestIds
          /\ tchild' = [KillActive EXCEPT ![NextTest].st = "alive"]
          /\ activeTestProcess' = NextTest
          /\ testStartTime' = NextTest
          /\ ctReply' = [action |-> "start", success |-> TRUE, pid |-> NextTest]
     ELSE /\ tchild' = KillActive
          /\ activeTestProcess' = Null
          /\ UNCHANGED testStartTime
          /\ ctReply' = [action |-> "start", success |-> FALSE, pid |-> Null]

(* POST action=stop (lines 55-71) *)
ctStop ==
  /\ UNCHANGED nonCtVars
  /\ ctn < MaxCtReqs
  /\ ctn' = ctn + 1
  /\ IF activeTestProcess # Null
     THEN /\ tchild' = KillActive
          /\ activeTestProcess' = Null
          /\ testStartTime' = Null
          /\ ctReply' = [action |-> "stop", success |-> TRUE]
     ELSE /\ ctReply' = [action |-> "stop", success |-> FALSE]
          /\ UNCHANGED <<activeTestProcess, testStartTime, tchild>>

(* the crash schedule of lines 78-82 *)
crashSchedule ==
  <<[time |-> 15, method |-> "stop", description |-> "PM2 Stop"],
    [time |-> 60, method |-> "kill", description |-> "Process Kill"],
    [time |-> 120, method |-> "stop", description |-> "PM2 Stop"]>>

(* the loop of lines 88-94 from its i-th round on; nextCrash is <<>> for    *)
(* null and <<crash>> otherwise                                             *)
RECURSIVE scan_strict(_, _, _, _)
scan_strict(i, elapsedTime, nextCrash, completedCrashes) ==
  IF i > Len(crashSchedule)
    THEN [nextCrash |-> nextCrash, completedCrashes |-> completedCrashes]
  ELSE IF elapsedTime > crashSchedule[i].time
    THEN scan_strict(i + 1, elapsedTime, nextCrash, Append(completedCrashes, crashSchedule[i]))
  ELSE IF nextCrash = <<>>
    THEN scan_strict(i + 1, elapsedTime, <<crashSchedule[i]>>, completedCrashes)
  ELSE scan_strict(i + 1, elapsedTime, nextCrash, completedCrashes)

RECURSIVE scan(_, _, _, _)
scan(i, elapsedTime, nextCrash, completedCrashes) ==
  IF i > Len(crashSchedule)
    THEN [nextCrash |-> nextCrash, completedCrashes |-> completedCrashes]
  ELSE IF elapsedTime >= crashSchedule[i].time
    THEN scan(i + 1, elapsedTime, nextCrash, Append(completedCrashes, crashSchedule[i]))
  ELSE IF nextCrash = <<>>
    THEN scan(i + 1, elapsedTime, <<crashSchedule[i]>>, completedCrashes)
  ELSE scan(i + 1, elapsedTime, nextCrash, completedCrashes)

(* 'activeTestProcess !== null && !activeTestProcess.killed' *)
ctIsRunning == activeTestProcess # Null /\ ~tchild[activeTestProcess].killed

(* the values 'Math.floor((Date.now() - testStartTime) / 1000)' can have *)
Elapsed == IF testStartTime # Null THEN 0..MaxElapsed ELSE {0}

(* POST action=status (lines 73-110) *)
ctStatus(elapsedTime) ==
  /\ UNCHANGED nonCtVars
  /\ ctn < MaxCtReqs
  /\ ctn' = ctn + 1
  /\ elapsedTime \in Elapsed
  /\ LET found == scan(1, elapsedTime, <<>>, <<>>)
     IN ctReply' =
          [action |-> "status", success |-> TRUE, isRunning |-> ctIsRunning,
           elapsedTime |-> elapsedTime,
           nextCrash |-> [i \in 1..Len(found.nextCrash) |->
                            [time |-> found.nextCrash[i].time,
                             method |-> found.nextCrash[i].method,
                             description |-> found.nextCrash[i].description,
                             timeUntil |-> found.nextCrash[i].time - elapsedTime]],
           completedCrashes |-> found.completedCrashes,
           pid |-> activeTestProcess]
  /\ UNCHANGED <<activeTestProcess, testStartTime, tchild>>

(* GET (lines 123-136) *)
ctGET(elapsedTime) ==
  /\ UNCHANGED nonCtVars
  /\ ctn < MaxCtReqs
  /\ ctn' = ctn + 1
  /\ elapsedTime \in Elapsed
  /\ ctReply' = [action |-> "GET", success |-> TRUE, isRunning |-> ctIsRunning,
                 elapsedTime |-> elapsedTime, pid |-> activeTestProcess]
  /\ UNCHANGED <<activeTestProcess, testStartTime, tchild>>

(* POST with any other action (line 112) *)
ctInvalid ==
  /\ UNCHANGED nonCtVars
  /\ ctn < MaxCtReqs
  /\ ctn' = ctn + 1
  /\ ctReply' = [action |-> "invalid", success |-> FALSE]
  /\ UNCHANGED <<activeTestProcess, testStartTime, tchild>>

(* a crash-test subprocess ends, by itself or by a signal it was sent *)
ctDie(p) ==
  /\ UNCHANGED nonCtVars
  /\ tchild[p].st = "alive"
  /\ tchild' = [tchild EXCEPT ![p].st = "dead"]
  /\ UNCHANGED <<activeTestProcess, testStartTime, ctn, ctReply>>

(* the 'close' listener of subprocess p (lines 42-46) *)
ctClose(p) ==
  /\ UNCHANGED nonCtVars
  /\ tchild[p].st = "dead"
  /\ tchild' = [tchild EXCEPT ![p].st = "gone"]
  /\ activeTestProcess' = Null
  /\ testStartTime' = Null
  /\ UNCHANGED <<ctn, ctReply>>

CtNext ==
  \/ \E out \in {"ok", "throw"} : ctStart(out)
  \/ ctStop
  \/ \E elapsedTime \in 0..MaxElapsed : ctStatus(elapsedTime)
  \/ \E elapsedTime \in 0..MaxElapsed : ctGET(elapsedTime)
  \/ ctInvalid
  \/ \E p \in TestIds : ctDie(p)
  \/ \E p \in TestIds : ctClose(p)

(* ------------------------------------------------------------------------ *)
(* JavaScript numbers: IEEE 754 doubles                                     *)
(* ------------------------------------------------------------------------ *)
(* A non-negative number is held exactly as a natural in units of           *)
(* 2^-(FracLimbs * LimbBits), written in Limbs digits of base LimbBase,     *)
(* lowest first. Every double the statistics produce is such a number; an   *)
(* operation computes the exact result and rounds it to Mantissa            *)
(* significant bits, ties to even, as the double operation does.            *)

LimbBits == 15

LimbBase == 2^LimbBits

Limbs == 8

FracLimbs == 6

Mantissa == 53

Digits == 1..Limbs

Zero == [i \in Digits |-> 0]

(* the integer k as a number, 0 <= k < LimbBase^2 *)
FromInt(k) ==
  [i \in Digits |-> IF i = FracLimbs + 1 THEN k % LimbBase
                    ELSE IF i = FracLimbs + 2 THEN k \div LimbBase ELSE 0]

(* bit b (from 0) of a number *)
Bit(a, b) == (a[(b \div LimbBits) + 1] \div 2^(b % LimbBits)) % 2

(* exact a + b *)
BigAdd(a, b) ==
  LET c[i \in 0..Limbs] == IF i = 0 THEN 0 ELSE (a[i] + b[i] + c[i - 1]) \div LimbBase
  IN [i \in Digits |-> (a[i] + b[i] + c[i - 1]) % LimbBase]

(* exact a - b, for a >= b *)
BigSub(a, b) ==
  LET c[i \in 0..Limbs] == IF i = 0 THEN 0 ELSE IF a[i] - b[i] - c[i - 1] < 0 THEN 1 ELSE 0
  IN [i \in Digits |-> (a[i] - b[i] - c[i - 1] + LimbBase) % LimbBase]

(* exact a * k for a small natural k *)
BigMul(a, k) ==
  LET c[i \in 0..Limbs] == IF i = 0 THEN 0 ELSE (a[i] * k + c[i - 1]) \div LimbBase
  IN [i \in Digits |-> (a[i] * k + c[i - 1]) % LimbBase]

(* a \div n and whether a remainder is left, for a small natural n > 0 *)
BigDiv(a, n) ==
  LET r[i \in 1..(Limbs + 1)] == IF i = Limbs + 1 THEN 0 ELSE (r[i + 1] * LimbBase + a[i]) % n
  IN [quotient |-> [i \in Digits |-> (r[i + 1] * LimbBase + a[i]) \div n],
      inexact |-> r[1] # 0]

(* a <= b *)
BigLeq(a, b) ==
  \/ a = b
  \/ \E i \in Digits : a[i] < b[i] /\ \A j \in Digits : j > i => a[j] = b[j]

(* the exact value a, or a little more than a when inexact, as the nearest  *)
(* double: round to nearest, ties to even                                   *)
Round(a, inexact) ==
  IF a = Zero THEN a
  ELSE
    LET high == CHOOSE i \in Digits : a[i] # 0 /\ \A j \in Digits : j > i => a[j] = 0
        top == (high - 1) * LimbBits
                 + (CHOOSE b \in 0..(LimbBits - 1) : 2^b <= a[high] /\ a[high] < 2^(b + 1))
        p == top - (Mantissa - 1)
    IN IF p <= 0 THEN a
       ELSE
         LET below ==
               \/ inexact
               \/ \E i \in Digits :
                    IF i * LimbBits <= p - 1 THEN a[i] # 0
                    ELSE IF (i - 1) * LimbBits >= p - 1 THEN FALSE
                    ELSE a[i] % (2^(p - 1 - (i - 1) * LimbBits)) # 0
             roundUp == Bit(a, p - 1) = 1 /\ (below \/ Bit(a, p) = 1)
             cut == [i \in Digits |->
                       IF i * LimbBits <= p THEN 0
                       ELSE IF (i - 1) * LimbBits >= p THEN a[i]
                       ELSE a[i] - (a[i] % (2^(p - (i - 1) * LimbBits)))]
             ulp == [i \in Digits |-> IF i = (p \div LimbBits) + 1 THEN 2^(p % LimbBits) ELSE 0]
         IN IF roundUp THEN BigAdd(cut, ulp) ELSE cut

(* the double operations the statistics use: a + b, a - b (a >= b), a * k   *)
(* and a / n for integers k and n                                           *)
Plus(a, b) == Round(BigAdd(a, b), FALSE)

Minus(a, b) == Round(BigSub(a, b), FALSE)

Times(a, k) == Round(BigMul(a, k), FALSE)

Over(a, n) == LET d == BigDiv(a, n) IN Round(d.quotient, d.inexact)

(* ------------------------------------------------------------------------ *)
(* The incident file and its readers: app/api/stats/route.ts and            *)
(* app/api/incidents/route.ts                                               *)
(* ------------------------------------------------------------------------ *)

(* 24 * 60 * 60 * 1000 ms (stats/route.ts:70) *)
Day == 24 * 60 * 60 * 1000

(* the value of 'new Date()' during a request: fixed, in ms *)
StatsNow == 2 * Day

(* what a record says besides its confidence; detected_at is the instant    *)
(* 'new Date(incident.detected_at)' gives, in ms: a day ago to the ms, a ms *)
(* ago, and a day and a ms ago                                              *)
Shapes ==
  <<[detected_at |-> StatsNow - Day, status |-> "DOWN", repair_attempted |-> TRUE, repair_success |-> TRUE],
    [detected_at |-> StatsNow - 1, status |-> "UP", repair_attempted |-> FALSE, repair_success |-> FALSE],
    [detected_at |-> StatsNow - Day - 1, status |-> "DOWN", repair_attempted |-> TRUE, repair_success |-> TRUE]>>

(* the records of the file: a confidence written as tenths/10, and a shape  *)
(* that goes with it                                                        *)
RecordKinds ==
  {LET s == Shapes[((t - 1) % Len(Shapes)) + 1]
   IN [detected_at |-> s.detected_at, status |-> s.status, tenths |-> t,
       repair_attempted |-> s.repair_attempted, repair_success |-> s.repair_success] :
     t \in 1..MaxTenths}

(* 'incident.diagnosis.confidence' after JSON.parse: the double nearest to  *)
(* the decimal written in the file                                          *)
confidence(incident) == Over(FromInt(incident.tenths), 10)

NoReply == [endpoint |-> "none"]

IdleStats ==
  /\ fileState = "missing"
  /\ records = <<>>
  /\ apiReply = NoReply
  /\ downLen = 0
  /\ uptimeSeen = <<>>

(* the file is missing, or holds up to MaxRecords records in any order *)
StatsInit ==
  /\ fileState \in {"missing", "present", "malformed"}
  /\ records \in SeqsUpTo(RecordKinds, MaxRecords)
  /\ fileState = "missing" => records = <<>>
  /\ apiReply = NoReply
  /\ downLen = 0
  /\ uptimeSeen = <<>>

(* the statistics of no records, with uptime 0 instead of 100 *)
baseline_zeroUptime ==
  [uptimePercentage |-> Zero, averageRepairTime |-> Zero,
   incidentsLast24h |-> 0, averageConfidence |-> Zero]

(* lines 59-66 *)
baseline ==
  [uptimePercentage |-> FromInt(100), averageRepairTime |-> Zero,
   incidentsLast24h |-> 0, averageConfidence |-> Zero]

(* 30 * 24 * 60 (line 83) *)
totalPeriodMinutes == 30 * 24 * 60

(* uptime over a period of one day instead of thirty *)
uptimePercentage_oneDay(downIncidentsLength) ==
  LET lost == Times(Over(FromInt(downIncidentsLength * 1), 24 * 60), 100)
  IN IF BigLeq(FromInt(100), lost) THEN Zero ELSE Minus(FromInt(100), lost)

(* lines 82-84: Math.max(0, 100 - (totalDowntimeMinutes / totalPeriodMinutes * 100)) *)
uptimePercentage(downIncidentsLength) ==
  LET lost == Times(Over(FromInt(downIncidentsLength * 1), totalPeriodMinutes), 100)
  IN IF BigLeq(FromInt(100), lost) THEN Zero ELSE Minus(FromInt(100), lost)

(* (1 - incident.diagnosis.confidence) * 30 (line 93) *)
repairProxy(incident) == Times(Minus(FromInt(1), confidence(incident)), 30)

(* reduce((sum, incident) => sum + (1 - confidence) * 30, 0) (lines 92-94): *)
(* left to right                                                            *)
RECURSIVE reduceRepair(_, _)
reduceRepair(incidents, sum) ==
  IF incidents = <<>> THEN sum
  ELSE reduceRepair(Tail(incidents), Plus(sum, repairProxy(Head(incidents))))

(* reduce((sum, incident) => sum + confidence, 0) (line 99): left to right *)
RECURSIVE reduceConfidence(_, _)
reduceConfidence(incidents, sum) ==
  IF incidents = <<>> THEN sum
  ELSE reduceConfidence(Tail(incidents), Plus(sum, confidence(Head(incidents))))

(* calculateStats (lines 58-108) *)
calculateStats(incidents, now) ==
  IF Len(incidents) = 0 THEN baseline
  ELSE
    LET oneDayAgo == now - Day
        incidentsLast24h == SelectSeq(incidents, LAMBDA incident : incident.detected_at >= oneDayAgo)
        downIncidents == SelectSeq(incidents, LAMBDA incident : incident.status = "DOWN")
        repairedIncidents ==
          SelectSeq(incidents, LAMBDA incident : incident.repair_attempted /\ incident.repair_success)
    IN [uptimePercentage |-> uptimePercentage(Len(downIncidents)),
        averageRepairTime |->
          IF Len(repairedIncidents) > 0
            THEN Over(reduceRepair(repairedIncidents, Zero), Len(repairedIncidents))
            ELSE Zero,
        incidentsLast24h |-> Len(incidentsLast24h),
        averageConfidence |-> Over(reduceConfidence(incidents, Zero), Len(incidents))]

(* readIncidents (stats/route.ts:36-56): a readFile that fails or a line     *)
(* JSON.parse throws on ends in the catch branch, which gives no records;   *)
(* of a malformed file, records are the lines that are well-formed          *)
readIncidents == IF fileState = "present" THEN records ELSE <<>>

(* GET of the stats route (lines 6-34); 'input' keeps what was read *)
statsGET ==
  /\ UNCHANGED nonStatsVars
  /\ apiReply' = [endpoint |-> "stats", success |-> TRUE, input |-> readIncidents,
                  data |-> calculateStats(readIncidents, StatsNow)]
  /\ UNCHANGED <<fileState, records, downLen, uptimeSeen>>

(* sort((a, b) => time(b) - time(a)): descending, equal times keep their order *)
RECURSIVE sortNewestFirst(_)
sortNewestFirst(incidents) ==
  IF incidents = <<>> THEN <<>>
  ELSE LET done == sortNewestFirst(SubSeq(incidents, 1, Len(incidents) - 1))
           last == incidents[Len(incidents)]
           k == Cardinality({i \in 1..Len(done) : done[i].detected_at >= last.detected_at})
       IN SubSeq(done, 1, k) \o <<last>> \o SubSeq(done, k + 1, Len(done))

(* GET of the incidents route (incidents/route.ts:6-44) *)
incidentsGET ==
  /\ UNCHANGED nonStatsVars
  /\ apiReply' =
       IF fileState # "present"
         THEN [endpoint |-> "incidents", success |-> FALSE, input |-> <<>>, data |-> <<>>, count |-> 0]
         ELSE [endpoint |-> "incidents", success |-> TRUE, input |-> records,
               data |-> sortNewestFirst(records), count |-> Len(records)]
  /\ UNCHANGED <<fileState, records, downLen, uptimeSeen>>

(* the file holds the same records in another order: two neighbours change  *)
(* places                                                                   *)
reorder(i) ==
  /\ UNCHANGED nonStatsVars
  /\ fileState = "present"
  /\ i \in 1..(Len(records) - 1)
  /\ records[i] # records[i + 1]
  /\ apiReply # NoReply
  /\ apiReply.input = records
  /\ records' = [records EXCEPT ![i] = records[i + 1], ![i + 1] = records[i]]
  /\ UNCHANGED <<fileState, apiReply, downLen, uptimeSeen>>

StatsNext ==
  \/ statsGET
  \/ incidentsGET
  \/ \E i \in 1..MaxRecords : reorder(i)

(* A file too long to write out, known by the number of its DOWN records    *)
(* (downIncidents.length, line 77): it has at least one record.             *)

(* one more DOWN record is written to the file *)
recordDown ==
  /\ UNCHANGED nonStatsVars
  /\ downLen < MaxDown
  /\ IF uptimeSeen = <<>> THEN FALSE ELSE uptimeSeen[1].down = downLen
  /\ downLen' = downLen + 1
  /\ UNCHANGED <<fileState, records, apiReply, uptimeSeen>>

(* GET of the stats route on that file: the uptime of lines 76-84 *)
statsOfDown ==
  /\ UNCHANGED nonStatsVars
  /\ IF uptimeSeen = <<>> THEN TRUE ELSE uptimeSeen[1].down # downLen
  /\ uptimeSeen' = <<[down |-> downLen, uptimePercentage |-> uptimePercentage(downLen)]>>
  /\ UNCHANGED <<fileState, records, apiReply, downLen>>

UptimeNext ==
  \/ recordDown
  \/ statsOfDown

(* ------------------------------------------------------------------------ *)
(* The log buffer of the dashboard alone: addServerLog, lines 268-277       *)
(* ------------------------------------------------------------------------ *)

Levels == {"info", "error"}

IdleLog == appended = <<>>

Errors(q) == Cardinality({i \in 1..Len(q) : q[i].level = "error"})

(* one call of addServerLog; few of the calls have the level 'error' *)
appendLog(level) ==
  /\ UNCHANGED nonLogVars
  /\ Len(appended) < MaxAppends
  /\ level = "error" => Errors(appended) < MaxErrors
  /\ SetDash(addServerLog(Dash, level, Text("a log message")))
  /\ appended' = Append(appended, [level |-> level, message |-> Text("a log message")])
  /\ UNCHANGED <<dashIsMonitoring, es, ui, script, nevents, lastLine, nraw, phase>>

LogNext == \E level \in Levels : appendLog(level)

Init == MonInit /\ StreamInit /\ IdleFramer /\ DashInit /\ IdleLog /\ CtInit /\ IdleStats

SpecLog == Init /\ [][LogNext]_vars

SpecCrashTest == Init /\ [][CtNext]_vars

InitStats == MonInit /\ StreamInit /\ IdleFramer /\ DashInit /\ IdleLog /\ CtInit /\ StatsInit

SpecStats == InitStats /\ [][StatsNext]_vars

SpecUptime == Init /\ [][UptimeNext]_vars

(* the line framing alone *)
InitFramer == MonInit /\ StreamInit /\ FramerInit /\ DashInit /\ IdleLog /\ CtInit /\ IdleStats

SpecFramer == InitFramer /\ [][FramerNext]_vars

(* the dashboard with its user, its poll and its event stream *)
SpecDash == Init /\ [][DashNext]_vars

SpecDashLog == Init /\ [][DashLogNext]_vars

(* the dashboard fed with lines only *)
InitLines == MonInit /\ StreamInit /\ IdleFramer /\ Streaming /\ script = <<>> /\ IdleLog /\ CtInit /\ IdleStats

SpecLines == InitLines /\ [][LinesNext]_vars

SpecLinesFair == InitLines /\ [][LinesNext]_vars /\ WF_vars(FireTimer) /\ WF_vars(Tick)

(* the dashboard fed with the four lines of the scenario *)
InitScenario == MonInit /\ StreamInit /\ IdleFramer /\ Streaming /\ script = Scenario /\ IdleLog /\ CtInit /\ IdleStats

SpecScenario == InitScenario /\ [][ScriptNext]_vars

(* the classifier applied to one line *)
InitClassify ==
  /\ MonInit /\ StreamInit /\ IdleFramer /\ Streaming /\ IdleLog /\ CtInit /\ IdleStats
  /\ script \in {<<message>> : message \in SUBSET ClassifyKeywords}

SpecClassify == InitClassify /\ [][ScriptNext]_vars

(* the monitoring supervisor alone *)
SpecMonitor == Init /\ [][MonNext]_vars

(* the log stream alone *)
SpecStream == Init /\ [][StreamNext]_vars

(* the log stream, with Node running every listener whose event is queued: *)
(* 'exit' after the process has ended, 'error' on the tick after spawn     *)
SpecStreamFair ==
  /\ Init
  /\ [][StreamNext]_vars
  /\ \A s \in SubIds : WF_vars(streamExit(s)) /\ WF_vars(streamError(s))

TypeOK ==
  /\ monitoringProcess \in 0..MaxProcs
  /\ isMonitoring \in BOOLEAN
  /\ processStartTime \in 0..MaxProcs
  /\ \A p \in ProcIds : child[p].st \in ProcStates /\ child[p].killed \in BOOLEAN
  /\ tick \in 0..MaxProcs
  /\ nchunks \in 0..MaxChunks
  /\ \A s \in SubIds :
       /\ conn[s].st \in {"none", "live", "aborted"}
       /\ sproc[s].st \in {"unborn", "alive", "dead", "exited", "failed", "errored"}
       /\ writer[s].st \in {"none", "open", "closed"}

(* ------------------------------------------------------------------------ *)
(* The monitoring supervisor's properties                                   *)
(* ------------------------------------------------------------------------ *)

(* request r runs startMonitoring / stopMonitoring in this step *)
StartRuns(r) == req[r].kind = "start" /\ req[r].pc = "parse" /\ req'[r].pc # "parse"

StopRuns(r) == req[r].kind = "stop" /\ req[r].pc = "parse" /\ req'[r].pc # "parse"

(* the 'exit' or 'error' listener of process p runs in this step *)
EventOf(p) == child[p].st \in {"dead", "failed"} /\ child'[p].st = "gone"

StartedOk(p) == \E r \in ReqIds : req[r].result = "ok" /\ req[r].spawned = p

(* C1: whenever a handle exists (monitoring is marked running), a start     *)
(* request fails with 'already running', spawns no subprocess, and leaves   *)
(* the handle, the pid and the start time as they were.                     *)
C1_StartWhileRunning ==
  [][\A r \in ReqIds :
       (StartRuns(r) /\ (monitoringProcess # Null \/ isMonitoring)) =>
         /\ req'[r].pc = "done"
         /\ req'[r].result = "AlreadyRunning"
         /\ req'[r].spawned = Null
         /\ child' = child
         /\ monitoringProcess' = monitoringProcess
         /\ isMonitoring' = isMonitoring
         /\ processStartTime' = processStartTime
         /\ status' = status]_vars

C1_Witness ==
  \E r \in ReqIds : req[r].result = "AlreadyRunning" /\ monitoringProcess # Null

(* C2: two start requests run back to back from the not-running state never *)
(* spawn two subprocesses; unless the first one's spawn call throws, the    *)
(* first returns success with the one subprocess and the second returns     *)
(* 'already running' and spawns nothing.                                    *)
C2_TwoStarts ==
  (pair[1] # Null /\ pair[2] # Null) =>
    LET a == req[pair[1]]
        b == req[pair[2]]
    IN /\ a.pc = "done" /\ b.pc = "done"
       /\ ~(a.spawned # Null /\ b.spawned # Null)
       /\ a.result # "StartFailed" =>
            /\ a.result = "ok" /\ a.spawned # Null
            /\ b.result = "AlreadyRunning" /\ b.spawned = Null
            /\ Cardinality({p \in Spawned : p >= a.spawned}) = 1

C2_Witness ==
  /\ pair[1] # Null /\ pair[2] # Null
  /\ req[pair[1]].result = "ok"
  /\ req[pair[2]].result = "AlreadyRunning"
  /\ pair[2] < pair[1]

(* C3: after a stop request that found a handle has returned success, the   *)
(* subprocess it was to stop is no longer alive.                            *)
C3_StoppedIsDead ==
  \A r \in ReqIds :
    (req[r].kind = "stop" /\ req[r].pc = "done" /\ req[r].result = "ok") =>
      child[req[r].target].st # "alive"

(* C4: at most one subprocess spawned by the supervisor is alive.           *)
C4_AtMostOneAlive == Cardinality(Alive) <= 1

(* C5: a subprocess whose start succeeded, that has not exited and after    *)
(* whose start no stop was issued (nor was in flight), is what status       *)
(* reports: isRunning = true with its pid.                                  *)
C5_StatusIsTruth ==
  \A p \in ProcIds :
    (StartedOk(p) /\ child[p].st = "alive" /\ p \notin stopSince) =>
      (status.isRunning /\ status.processId = p)

(* C6: a stop request issued when no handle exists fails with 'not running',*)
(* sends no signal and leaves the supervisor state as it was.               *)
C6_StopWhileNotRunning ==
  [][\A r \in ReqIds :
       (StopRuns(r) /\ (monitoringProcess = Null \/ ~isMonitoring)) =>
         /\ req'[r].pc = "done"
         /\ req'[r].result = "NotRunning"
         /\ child' = child
         /\ monitoringProcess' = monitoringProcess
         /\ isMonitoring' = isMonitoring
         /\ processStartTime' = processStartTime]_vars

C6_Witness ==
  \E r \in ReqIds : req[r].result = "NotRunning"

(* C7: when the supervised subprocess exits or raises a process error, the  *)
(* handle is cleared and running becomes false, status then reports         *)
(* isRunning = false with pid null, only a start request makes it running   *)
(* again, and that start is not refused: it calls spawn and succeeds unless *)
(* spawn itself throws.                                                     *)
C7_ExitClears ==
  [][/\ \A p \in ProcIds :
          (EventOf(p) /\ monitoringProcess = p) =>
            /\ ~isMonitoring' /\ monitoringProcess' = Null
            /\ ~status'.isRunning /\ status'.processId = Null
     /\ (~isMonitoring /\ isMonitoring') => \E r \in ReqIds : StartRuns(r)
     /\ \A r \in ReqIds :
          (StartRuns(r) /\ ~isMonitoring) =>
            /\ req'[r].result \in {"ok", "StartFailed"}
            /\ req'[r].result = "ok" <=>
                 (req'[r].spawned # Null /\ monitoringProcess' = req'[r].spawned)]_vars

C7_Witness ==
  /\ \A r \in ReqIds : req[r].kind # "stop"
  /\ child[1].st = "gone"
  /\ \E r \in ReqIds : req[r].result = "ok" /\ req[r].spawned = 2
  /\ status.isRunning

(* ------------------------------------------------------------------------ *)
(* The log stream's properties                                              *)
(* ------------------------------------------------------------------------ *)

StreamAlive == {s \in SubIds : sproc[s].st = "alive"}

Subscribed == {s \in SubIds : conn[s].st = "live" /\ writer[s].st = "open"}

HasEvent(s, kind) == \E i \in 1..Len(delivered[s]) : delivered[s][i].event = kind

(* C8: with any number of observers subscribed at once, at most one         *)
(* monitoring subprocess is alive: a subscribe spawns no further one.       *)
C8_FanOut == Cardinality(StreamAlive) <= 1

(* C9: when an observer disconnects, only its delivery path is closed: no   *)
(* subprocess receives a signal because of it, and the other observers'     *)
(* paths stay as they are.                                                  *)
C9_AbortFrame ==
  [][\A s \in SubIds :
       (conn[s].st = "live" /\ conn'[s].st = "aborted") =>
         /\ writer'[s].st = "closed"
         /\ sproc' = sproc
         /\ \A t \in SubIds \ {s} :
              writer'[t] = writer[t] /\ delivered'[t] = delivered[t]]_vars

(* C10: on subprocess exit a process_exit event is sent to the subscription *)
(* (unless the subscription was closed before), it is the last event the    *)
(* observer is sent whatever data arrives later, and the subscription is    *)
(* then closed.                                                             *)
C10_ExitIsLast ==
  \A s \in SubIds :
    /\ \A i \in 1..Len(delivered[s]) :
         delivered[s][i].event = "process_exit" =>
           i = Len(delivered[s]) /\ writer[s].st = "closed"
    /\ sproc[s].st = "exited" =>
         /\ writer[s].st = "closed"
         /\ HasEvent(s, "process_exit") \/ conn[s].st = "aborted"

C10_Witness ==
  \E s \in SubIds :
    /\ conn[s].st = "live"
    /\ HasEvent(s, "process_exit")
    /\ writer[s].lateWrite

(* ------------------------------------------------------------------------ *)
(* Properties of the stream's first event and of the line framing           *)
(* ------------------------------------------------------------------------ *)

(* C11: on every subscription the first event sent is the 'connected'       *)
(* marker, also when the subprocess cannot be started.                      *)
C11_ConnectedFirst ==
  \A s \in SubIds :
    delivered[s] # <<>> => delivered[s][1].event = "connected"

Messages(evs) == [i \in 1..Len(evs) |-> evs[i].message]

(* lines joined with a newline between each two *)
RECURSIVE Join(_)
Join(ls) ==
  IF ls = <<>> THEN <<>>
  ELSE IF Len(ls) = 1 THEN ls[1]
  ELSE ls[1] \o <<NL>> \o Join(Tail(ls))

(* C12: however stdout is cut into chunks, the raw events are, in order,    *)
(* the lines of the whole stream: a line that spans a chunk boundary is one *)
(* event.                                                                   *)
C12_ChunkingInvisible ==
  (fended /\ fkind = "raw") => femitted = LineEvents("raw", fstream)

(* C13: the emitted line messages joined with newlines give back the        *)
(* stream (with or without the newline that ends its last line).            *)
C13_RoundTrip ==
  fended =>
    LET back == Join(Messages(femitted))
    IN fstream = back \/ fstream = back \o <<NL>>

(* ------------------------------------------------------------------------ *)
(* The dashboard's classifier and its timers                                *)
(* ------------------------------------------------------------------------ *)

(* the rules whose condition a line meets *)
Matching(message) == {i \in 1..NumRules : RuleMatches(i, message)}

Min(S) == CHOOSE x \in S : \A y \in S : x <= y

(* the effect of the highest rule a line matches, and of no other *)
FirstMatch(d, message) ==
  IF Matching(message) = {} THEN d ELSE RuleEffect(Min(Matching(message)), d, message)

(* this step is the 'raw' listener; it classifies lastLine' *)
RawStep == nraw' # nraw

(* this step runs the timer callback cb *)
Firing(cb) ==
  /\ \E i \in Due : timers[i].cb = cb
  /\ timers' # timers
  /\ nraw' = nraw

(* the highest rule the line matches is the terminal-success one *)
Terminal(message) == Matching(message) # {} /\ Min(Matching(message)) = 6

AllIdle == agents = IdleAgents

(* C14: first match wins: what a raw line changes is what the highest rule  *)
(* it matches does, and then the line is logged; no lower rule adds to it.  *)
C14_FirstMatchWins ==
  [][RawStep =>
       Dash' = addServerLog(FirstMatch(Dash, lastLine'), "info", lastLine')]_vars

C14_Witness ==
  /\ lastLine = {"robot", "STARTING", "confidence:", "DOWN", "repair", "PASSED"}
  /\ currentWorkflow = "Continuous monitoring initiated"
  /\ agents["supervisor"].status = "working"
  /\ agents["executor"].status = "idle"
  /\ agents["evaluator"].status = "idle"
  /\ serverStatus = "unknown"
  /\ timers = <<>>

(* C15: a raw line that is no cycle-start banner and has a confidence token *)
(* and DOWN (or UP) sets the server status to down (or up) and the          *)
(* supervisor to working, and for DOWN sets the 1.5 s timer that puts the   *)
(* executor to work.                                                        *)
C15_DiagnosisRule ==
  [][(/\ RawStep
      /\ ~RuleMatches(1, lastLine')
      /\ includes(lastLine', "confidence:")
      /\ includes(lastLine', "DOWN") \/ includes(lastLine', "UP"))
     => /\ agents'["supervisor"].status = "working"
        /\ serverStatus' = IF includes(lastLine', "DOWN") THEN "down" ELSE "up"
        /\ includes(lastLine', "DOWN") =>
             timers' = Append(timers, [cb |-> "executorPrepare", left |-> PrepareDelay])]_vars

(* C16 as stated: the first timer of a terminal-success line clears the     *)
(* marker, and the marker is null before the agents are reset.              *)
C16_MarkerClearedFirst ==
  [][/\ Firing("workflowComplete") => currentWorkflow' = NoWorkflow
     /\ Firing("resetAll") => currentWorkflow = NoWorkflow]_vars

(* C16, amended: a terminal-success line completes the evaluator at once    *)
(* and sets a 1.5 s timer; that timer sets the marker to 'Monitoring cycle  *)
(* complete' and sets a 2 s timer; that one clears the marker and resets    *)
(* the three agents to idle with their idle tasks, in one step.             *)
C16_CompleteThenReset ==
  [][/\ (RawStep /\ Terminal(lastLine')) =>
          /\ agents' = [agents EXCEPT !["evaluator"] =
                          [status |-> "completed", currentTask |-> "Verification complete!"]]
          /\ currentWorkflow' = currentWorkflow
          /\ timers' = Append(timers, [cb |-> "workflowComplete", left |-> WorkflowDelay])
     /\ Firing("workflowComplete") =>
          /\ currentWorkflow' = "Monitoring cycle complete"
          /\ agents' = agents
          /\ \E i \in Due :
               timers' = Append(Remove(timers, i), [cb |-> "resetAll", left |-> ResetDelay])
     /\ Firing("resetAll") =>
          /\ currentWorkflow' = NoWorkflow
          /\ AllIdle'
          /\ \E i \in Due : timers' = Remove(timers, i)]_vars

C16_Witness ==
  /\ Terminal(lastLine)
  /\ agents["evaluator"].status = "completed"
  /\ currentWorkflow = "Monitoring cycle complete"
  /\ \E i \in 1..Len(timers) : timers[i] = [cb |-> "resetAll", left |-> 0]

(* C17: in the scenario the server status only goes from unknown to down,   *)
(* and until the reset every agent only goes from idle to working and from  *)
(* working to completed.                                                    *)
C17_ScenarioOrder ==
  [][/\ serverStatus' # serverStatus => (serverStatus = "unknown" /\ serverStatus' = "down")
     /\ \A a \in AgentIds :
          agents'[a].status # agents[a].status =>
            \/ Firing("resetAll")
            \/ agents[a].status = "idle" /\ agents'[a].status = "working"
            \/ agents[a].status = "working" /\ agents'[a].status = "completed"]_vars

Settled == AllIdle /\ currentWorkflow = NoWorkflow /\ timers = <<>>

(* C18: when the last line to arrive is a terminal-success line, the timers *)
(* all run and the dashboard comes to rest with the three agents idle, the  *)
(* marker null and no timer left.                                           *)
C18_Settles == <>[]Terminal(lastLine) => <>[]Settled

C18_Witness == Terminal(lastLine) /\ Settled /\ nraw = MaxLines

(* C19: after a stop that succeeded, and until monitoring starts again, the *)
(* three agents are idle and the marker is null.                            *)
C19_StopCancels == phase = "stopped" => (AllIdle /\ currentWorkflow = NoWorkflow)

(* C20: after process_exit was handled, and until a cycle start is          *)
(* classified or monitoring starts again, the marker is null.               *)
C20_ExitClearsMarker == phase = "exited" => currentWorkflow = NoWorkflow

(* ------------------------------------------------------------------------ *)
(* The agents' life cycle, the server status and the log buffer             *)
(* ------------------------------------------------------------------------ *)

(* the first branch of the chain that a line takes, 0 when it takes none *)
FirstRule(message) == IF Matching(message) = {} THEN 0 ELSE Min(Matching(message))

(* C21: every change of an agent's status is idle to working, working to    *)
(* completed, or a return to idle.                                          *)
C21_LifecycleOrder ==
  [][\A a \in AgentIds :
       agents'[a].status # agents[a].status =>
         \/ agents[a].status = "idle" /\ agents'[a].status = "working"
         \/ agents[a].status = "working" /\ agents'[a].status = "completed"
         \/ agents'[a].status = "idle"]_vars

(* C22 as stated: the server status changes only when a diagnosis line is   *)
(* classified.                                                              *)
C22_OnlyDiagnosis ==
  [][serverStatus' # serverStatus => (RawStep /\ FirstRule(lastLine') = 3)]_vars

(* C22, amended: the server status changes only when a diagnosis line or a  *)
(* crash line is classified; no other line, no timer, start, stop, poll or  *)
(* process exit changes it.                                                 *)
C22_DiagnosisOrCrash ==
  [][serverStatus' # serverStatus => (RawStep /\ FirstRule(lastLine') \in {3, 7})]_vars

C22_Witness ==
  /\ nraw = 1
  /\ FirstRule(lastLine) = 7
  /\ serverStatus = "down"
  /\ phase = "stopped"

AgentStatuses == {"idle", "working", "completed", "error"}

(* C23: the agents are always exactly supervisor, executor and evaluator,   *)
(* each with a status that is idle, working, completed or error.            *)
C23_ThreeAgents ==
  /\ DOMAIN agents = AgentIds
  /\ \A a \in DOMAIN agents : agents[a].status \in AgentStatuses

C23_Witness ==
  /\ phase = "stopped"
  /\ nraw >= 1
  /\ agents["executor"].status = "working"
  /\ timers = <<>>

(* C24: the log buffer never holds more than 50 entries, and they are the   *)
(* 50 entries appended last, in the order they were appended.               *)
C24_LogBound ==
  /\ Len(serverLogs) <= LogKeep
  /\ serverLogs = LastN(appended, LogKeep)

(* ------------------------------------------------------------------------ *)
(* Claims about the crash-test route                                        *)
(* ------------------------------------------------------------------------ *)

(* a request of the crash-test route being answered *)
CtStep(action) == ctn' # ctn /\ ctReply'.action = action

(* C25: a start request issued while a crash-test handle exists fails,      *)
(* spawns nothing, and leaves the subprocesses, the handle and the start    *)
(* time untouched.                                                          *)
C25_AlreadyRunning ==
  [][(CtStep("start") /\ activeTestProcess # Null) =>
       /\ ~ctReply'.success
       /\ UNCHANGED <<activeTestProcess, testStartTime, tchild>>]_vars

(* the milestones of the schedule an elapsed time has reached *)
Reached(e) == {i \in DOMAIN crashSchedule : e >= crashSchedule[i].time}

(* C26: the status answer is arithmetic over the schedule: completedCrashes *)
(* is exactly the milestones with elapsed >= offset, in schedule order;     *)
(* nextCrash is the earliest milestone with elapsed < offset, null exactly  *)
(* when elapsed >= 120; timeUntil = offset - elapsed >= 1.                  *)
C26_StatusArithmetic ==
  ctReply.action = "status" =>
    LET e == ctReply.elapsedTime
        ahead == DOMAIN crashSchedule \ Reached(e)
    IN /\ ctReply.completedCrashes = SelectSeq(crashSchedule, LAMBDA c : e >= c.time)
       /\ Len(ctReply.completedCrashes) = Cardinality(Reached(e))
       /\ (ctReply.nextCrash = <<>>) <=> (e >= 120)
       /\ (ctReply.nextCrash = <<>>) <=> (ahead = {})
       /\ ahead # {} =>
            /\ Len(ctReply.nextCrash) = 1
            /\ ctReply.nextCrash[1].time = Min({crashSchedule[i].time : i \in ahead})
            /\ ctReply.nextCrash[1].timeUntil = ctReply.nextCrash[1].time - e
            /\ ctReply.nextCrash[1].timeUntil >= 1

C26_Witness ==
  /\ ctReply.action = "status"
  /\ ctReply.elapsedTime = 60
  /\ Len(ctReply.completedCrashes) = 2
  /\ ctReply.nextCrash # <<>>
  /\ ctReply.nextCrash[1].time = 120
  /\ ctReply.nextCrash[1].timeUntil = 60
  /\ tchild[1].st = "dead"

(* ------------------------------------------------------------------------ *)
(* Claims about the incident file and its readers                           *)
(* ------------------------------------------------------------------------ *)

(* an answer of the stats route has been given *)
StatsAnswered == apiReply.endpoint = "stats"

(* C27: the statistics of an empty record list are exactly uptime 100,      *)
(* average repair time 0, incidents in the last 24h 0, average confidence 0 *)
C27_EmptyBaseline ==
  (StatsAnswered /\ apiReply.input = <<>>) =>
    /\ apiReply.success
    /\ apiReply.data = [uptimePercentage |-> FromInt(100), averageRepairTime |-> Zero,
                        incidentsLast24h |-> 0, averageConfidence |-> Zero]

C27_Witness == StatsAnswered /\ apiReply.input = <<>> /\ fileState = "present"

(* how often x occurs in s *)
Count(s, x) == Cardinality({i \in 1..Len(s) : s[i] = x})

(* s and t hold the same records, each as often *)
IsPermutation(s, t) ==
  /\ Len(s) = Len(t)
  /\ \A i \in 1..Len(s) : Count(s, s[i]) = Count(t, s[i])

(* C28: for a fixed 'now', the statistics of two files that hold the same   *)
(* records in different orders are the same in every field, and the 24h    *)
(* count is the number of records with detected_at >= now - 24h.            *)
C28_PermutationInvariant ==
  /\ [][(StatsAnswered /\ apiReply'.endpoint = "stats"
           /\ IsPermutation(apiReply.input, apiReply'.input)) =>
          apiReply'.data = apiReply.data]_vars
  /\ [](StatsAnswered =>
          apiReply.data.incidentsLast24h =
            Cardinality({i \in 1..Len(apiReply.input) :
                           apiReply.input[i].detected_at >= StatsNow - Day}))

(* 2^-30 *)
Tiny == Over(Over(FromInt(1), LimbBase), LimbBase)

(* a and b differ by no more than Tiny *)
Close(a, b) == IF BigLeq(a, b) THEN BigLeq(BigSub(b, a), Tiny) ELSE BigLeq(BigSub(a, b), Tiny)

(* C29: for a non-empty file with d DOWN records the uptime is              *)
(* max(0, 100 - d * 1 / 43200 * 100): it is the real number 100 - d / 432   *)
(* up to the rounding of the double operations, lies within [0, 100], is 0  *)
(* for every d >= 43200, and does not increase when d does.                 *)
C29_Uptime ==
  /\ [](uptimeSeen # <<>> =>
          LET d == uptimeSeen[1].down
              u == uptimeSeen[1].uptimePercentage
          IN /\ BigLeq(Zero, u) /\ BigLeq(u, FromInt(100))
             /\ d >= 43200 => u = Zero
             /\ d <= 43200 => Close(BigMul(u, 432), FromInt(43200 - d))
             /\ d < 43200 => u # Zero)
  /\ [][(uptimeSeen # <<>> /\ uptimeSeen' # <<>>) =>
          \/ uptimeSeen'[1].down < uptimeSeen[1].down
          \/ BigLeq(uptimeSeen'[1].uptimePercentage, uptimeSeen[1].uptimePercentage)]_vars

C29_Witness ==
  /\ uptimeSeen # <<>>
  /\ uptimeSeen[1].down = 43200
  /\ uptimeSeen[1].uptimePercentage = Zero

(* C30: while the record file does not exist, every reader answers with     *)
(* success and an empty result: the incidents route with an empty list and  *)
(* count 0, the stats route with the statistics of no records.              *)
C30_MissingFile ==
  (fileState = "missing" /\ apiReply # NoReply) =>
    /\ apiReply.success
    /\ apiReply.endpoint = "incidents" => (apiReply.data = <<>> /\ apiReply.count = 0)
    /\ apiReply.endpoint = "stats" =>
         apiReply.data = [uptimePercentage |-> FromInt(100), averageRepairTime |-> Zero,
                          incidentsLast24h |-> 0, averageConfidence |-> Zero]

(* C31: when a line of the record file is not a valid record, every reader  *)
(* answers with success = false; none answers with a success computed as   *)
(* if the file were empty or partly read.                                   *)
C31_MalformedFails ==
  (fileState = "malformed" /\ apiReply # NoReply) => ~apiReply.success

(* the newest n entries of the visible log *)
Newest(n) == SubSeq(serverLogs', Len(serverLogs') - n + 1, Len(serverLogs'))

(* C32: a raw line whose first matching rule is the crash rule sets         *)
(* ServerStatus to down and appends a log entry of level warn, and leaves   *)
(* the agents, the workflow marker and the pending timers as they were.     *)
C32_CrashFrame ==
  [][(RawStep /\ FirstRule(lastLine') = 7) =>
       /\ serverStatus' = "down"
       /\ Len(serverLogs') >= 2
       /\ Newest(2)[1] = [level |-> "warn", message |-> lastLine' \cup {"boom"}]
       /\ agents' = agents
       /\ currentWorkflow' = currentWorkflow
       /\ timers' = timers]_vars

C32_Witness ==
  /\ nraw = 2
  /\ FirstRule(lastLine) = 7
  /\ serverStatus = "down"
  /\ timers # <<>>
  /\ agents["supervisor"].status = "working"
  /\ currentWorkflow # NoWorkflow

(* C33: a raw line that matches no rule leaves the agents, ServerStatus,    *)
(* the workflow marker and the pending timers as they were; and every raw   *)
(* line, matched or not, is appended to the visible log with its message.   *)
C33_MissFrame ==
  [][RawStep =>
       /\ Len(serverLogs') >= 1
       /\ Newest(1)[1].message = lastLine'
       /\ FirstRule(lastLine') = 0 =>
            /\ agents' = agents
            /\ serverStatus' = serverStatus
            /\ currentWorkflow' = currentWorkflow
            /\ timers' = timers
            /\ serverLogs' = Append(LastN(serverLogs, LogKeep), Newest(1)[1])]_vars

C33_Witness ==
  /\ nraw = 2
  /\ FirstRule(lastLine) = 0
  /\ serverStatus = "down"
  /\ timers # <<>>
  /\ serverLogs[Len(serverLogs)].message = lastLine

(* C35: a stop request signals, and clears the handle of, only the          *)
(* subprocess that was supervised when the stop was invoked: when the stop  *)
(* resumes after its grace window, every other subprocess is left as it is  *)
(* and, if it is the one supervised now, stays supervised.                  *)
C35_StopOnlyItsOwn ==
  [][\A r \in ReqIds :
       (req[r].pc = "grace" /\ req'[r].pc = "done") =>
         \A p \in ProcIds :
           p # req[r].target =>
             /\ child'[p] = child[p]
             /\ monitoringProcess = p => monitoringProcess' = p]_vars

(* C39: in every state between requests and events the running flag is true *)
(* exactly when the process handle is not null, so the isRunning of status  *)
(* is the flag, and processId is not null only when running.                *)
C39_FlagIffHandle ==
  /\ isMonitoring <=> monitoringProcess # Null
  /\ status.isRunning = isMonitoring
  /\ status.processId # Null => isMonitoring

C39_Witness ==
  /\ isMonitoring
  /\ monitoringProcess = 2
  /\ child[1].st = "gone"
  /\ \E r \in ReqIds : req[r].kind = "stop" /\ req[r].pc = "done" /\ req[r].result = "ok"

(* C36: while subprocess P is the crash test started last, every step that  *)
(* is neither a start or stop request nor the close of P itself (the close  *)
(* of an earlier, replaced or stopped subprocess among them) keeps P's      *)
(* handle and start time, so that status goes on reporting isRunning with   *)
(* P's pid.                                                                 *)
C36_OnlyOwnClose ==
  [][(/\ activeTestProcess # Null
      /\ ~CtStep("start")
      /\ ~CtStep("stop")
      /\ tchild'[activeTestProcess].st # "gone") =>
       /\ activeTestProcess' = activeTestProcess
       /\ testStartTime' = testStartTime
       /\ testStartTime # Null
       /\ ~tchild'[activeTestProcess].killed]_vars

(* C37: on every subscription the stream writer is closed at most once, and *)
(* no event is written to it after it has been closed.                      *)
C37_WriterDiscipline ==
  \A s \in SubIds : ~writer[s].reclosed /\ ~writer[s].lateWrite

(* C38: every subscription is closed eventually once its subprocess is      *)
(* gone, be it by an 'exit' event or, when it could not be spawned, by an   *)
(* 'error' event alone.                                                     *)
C38_ClosedInTheEnd ==
  \A s \in SubIds :
    (sproc[s].st \in {"exited", "errored"}) ~> (writer[s].st = "closed")

(* this step is the 'log' listener receiving logData *)
LogStep(logData) == onLog(logData)

(* C34: no agent ever has the status error, whatever raw lines and          *)
(* structured events arrive, timers run, and starts, stops and resets       *)
(* happen.                                                                  *)
C34_NoAgentError == \A a \in AgentIds : agents[a].status # "error"

C34_Witness ==
  /\ nraw >= 1
  /\ \E i \in 1..Len(serverLogs) : serverLogs[i].message = {"Evaluator:", "PASSED"}
  /\ agents["evaluator"].status = "completed"
  /\ agents["supervisor"].status = "completed"
  /\ \E i \in 1..Len(timers) : timers[i].cb = "logReset"

(* the line mentions both states *)
MentionsBoth(message) == {"DOWN", "UP"} \subseteq message

(* the event is a diagnosis: by its type, or by its message *)
DiagnosisEvent(logData) ==
  logData.type = "diagnosis" \/ includes(logData.message, "LLM diagnosis:")

(* a diagnosis line or event that mentions both states leaves it down *)
MixedGivesDown ==
  /\ (RawStep /\ FirstRule(lastLine') = 3 /\ MentionsBoth(lastLine')) => serverStatus' = "down"
  /\ \A logData \in LogEvents :
       (LogStep(logData) /\ DiagnosisEvent(logData) /\ MentionsBoth(logData.message))
         => serverStatus' = "down"

(* once up or down, up or down after the step *)
StaysKnown == serverStatus \in {"up", "down"} => serverStatus' \in {"up", "down"}

C40_StaysKnown == [][StaysKnown]_vars

(* the second half of C40 for raw lines alone *)
C40_RawMixed ==
  [][(RawStep /\ FirstRule(lastLine') = 3 /\ MentionsBoth(lastLine')) => serverStatus' = "down"]_vars

====
